---------------------------- MODULE Spec2Model ----------------------------
(***************************************************************************)
(* Sisimpur backend: the webhook client (apps/brain/provider.py), the     *)
(* document processor (apps/brain/processor.py), the background job       *)
(* thread (apps/brain/services.py) and the job / exam views               *)
(* (apps/brain/views.py, apps/dashboard/views.py).                        *)
(***************************************************************************)
EXTENDS Integers, Sequences, FiniteSets, TLC

\* ------------------------------------------------------------------------
\* Bounds of the model
\* ------------------------------------------------------------------------
MaxItems == 2        \* longest list of question items in a webhook body
MaxJobs == 2         \* ProcessingJob rows ever created in one behaviour
MaxSessions == 2     \* ExamSession rows ever created in one behaviour
MaxEvaluations == 2  \* ShortAnswerEvaluation rows ever created in one behaviour
MaxHooks == 2        \* completion webhooks sent for one exam session
MaxFlash == 1        \* FlashcardSession rows at a time

\* ------------------------------------------------------------------------
\* JSON values as Python sees them after response.json().  Every value is
\* a record of one shape: t the type, s a scalar's text, l a list's
\* elements, d a dict's entries in insertion order.
\* ------------------------------------------------------------------------
JNull == [t |-> "null", s |-> "", l |-> <<>>, d |-> <<>>]
JStr(x) == [t |-> "str", s |-> x, l |-> <<>>, d |-> <<>>]
JBool(b) == [t |-> "bool", s |-> IF b THEN "true" ELSE "false", l |-> <<>>, d |-> <<>>]
JNum(x) == [t |-> "num", s |-> x, l |-> <<>>, d |-> <<>>]
JList(xs) == [t |-> "list", s |-> "", l |-> xs, d |-> <<>>]
JDict(es) == [t |-> "dict", s |-> "", l |-> <<>>, d |-> es]
E(k, v) == [k |-> k, v |-> v]

IsDict(x) == x.t = "dict"
IsList(x) == x.t = "list"

\* Python truthiness: None, False, 0, '', [] and {} are falsy.
Truthy(x) ==
    CASE x.t = "null" -> FALSE
      [] x.t = "bool" -> x.s = "true"
      [] x.t = "num"  -> x.s \notin {"0", "0.0"}
      [] x.t = "str"  -> x.s # ""
      [] x.t = "list" -> Len(x.l) > 0
      [] x.t = "dict" -> Len(x.d) > 0

\* key in dict
Has(x, k) == \E i \in 1..Len(x.d) : x.d[i].k = k
\* dict.get(key, default)
Get(x, k, dflt) ==
    IF Has(x, k) THEN x.d[CHOOSE i \in 1..Len(x.d) : x.d[i].k = k].v ELSE dflt


\* ------------------------------------------------------------------------
\* provider.py, APIService._make_request: the HTTP 200 branch.
\* raw is response.json(), or None when the body is not JSON.
\* ------------------------------------------------------------------------
JTrue == JBool(TRUE)
EmptyDict == JDict(<<>>)

\* Mutant: the list branch forgets to step into output['data'].
ListOutputData_KeepWrapper(output) ==
    IF Has(output, "data") \/ Has(output, "questions") THEN output ELSE JNull

\* normalized_data for an `output` dict taken from a list body (lines 113-116)
ListOutputData(output) ==
    IF Has(output, "data") /\ IsDict(Get(output, "data", JNull))
    THEN Get(output, "data", JNull)
    ELSE IF Has(output, "questions") THEN output ELSE JNull

\* normalized_data for the `output` wrapper of a dict body (lines 122-127)
DictOutputData(output) ==
    IF Has(output, "data") /\ IsDict(Get(output, "data", JNull))
    THEN Get(output, "data", JNull)
    ELSE output

\* (normalized_data, normalized_success) before the fallback of line 136
NormalizedPair(raw) ==
    IF IsList(raw) /\ Truthy(raw)
    THEN LET first == raw.l[1] IN
         IF IsDict(first)
         THEN LET got == Get(first, "output", JNull)
                  output == IF Truthy(got) THEN got ELSE first
              IN IF IsDict(output)
                 THEN [data |-> ListOutputData(output),
                       success |-> Get(output, "success", JTrue)]
                 ELSE [data |-> JNull, success |-> JTrue]
         ELSE [data |-> JNull, success |-> JTrue]
    ELSE IF IsDict(raw)
    THEN IF Has(raw, "output") /\ IsDict(Get(raw, "output", JNull))
         THEN LET got == Get(raw, "output", JNull)
                  output == IF Truthy(got) THEN got ELSE EmptyDict
              IN [data |-> DictOutputData(output),
                  success |-> Get(output, "success", JTrue)]
         ELSE IF Has(raw, "data") /\ IsDict(Get(raw, "data", JNull))
         THEN [data |-> Get(raw, "data", JNull),
               success |-> Get(raw, "success", JTrue)]
         ELSE [data |-> raw, success |-> JTrue]
    ELSE [data |-> JNull, success |-> JTrue]

\* Mutant: the fallback wraps nothing and hands on what normalization left.
RawFallback_None(data, raw) ==
    IF IsDict(data) THEN data ELSE EmptyDict

\* The fallback of lines 136-138.
RawFallback(data, raw) ==
    IF IsDict(data) THEN data ELSE JDict(<<E("raw", raw)>>)

\* The dict _make_request returns for a 200 response (lines 140-145).
Response200(raw) ==
    LET n == NormalizedPair(raw) IN
    [success |-> Truthy(n.success),
     data |-> RawFallback(n.data, raw),
     status_code |-> 200,
     error |-> ""]

\* ------------------------------------------------------------------------
\* processor.py, APIDocumentProcessor._extract_qa_pairs
\* ------------------------------------------------------------------------
\* The dict built for one item (lines 170-181).
QaPair(item) ==
    [question |-> Get(item, "question", Get(item, "q", JStr(""))),
     answer |-> Get(item, "answer", Get(item, "a", JStr(""))),
     question_type |-> Get(item, "question_type", JStr("MULTIPLECHOICE")),
     options |-> Get(item, "options", JList(<<>>)),
     correct_option |-> Get(item, "correct_option", JStr("")),
     confidence_score |-> Get(item, "confidence_score", JNum("0.0")),
     explanation |-> Get(item, "explanation", JStr("")),
     difficulty |-> Get(item, "difficulty", JStr("medium")),
     topic |-> Get(item, "topic", JStr("")),
     metadata |-> Get(item, "metadata", EmptyDict)]

\* Lines 145-150: unwrap {output: {data: {...}}} left over by the service.
UnwrapOutput(api_data) ==
    IF IsDict(api_data) /\ Has(api_data, "output")
       /\ IsDict(Get(api_data, "output", JNull))
    THEN LET got == Get(api_data, "output", JNull)
             output == IF Truthy(got) THEN got ELSE EmptyDict
             data == Get(output, "data", JNull)
         IN IF IsDict(data)
            THEN (IF Truthy(data) THEN data ELSE EmptyDict)
            ELSE output
    ELSE api_data

\* `'questions' in x` for the value x found under 'results' (line 157):
\* a key test on a dict, a membership test on a list, a substring test on
\* a str, a TypeError on anything else.
InRaises(x) == x.t \in {"null", "bool", "num"}
InHolds(x, k) ==
    CASE x.t = "dict" -> Has(x, k)
      [] x.t = "list" -> \E i \in 1..Len(x.l) : x.l[i] = JStr(k)
      [] x.t = "str"  -> x.s = k
      [] OTHER -> FALSE

\* Index of the first entry the discovery loop of lines 162-166 accepts,
\* 0 when there is none.
FirstCandidate(api_data) ==
    LET ok(i) == LET v == api_data.d[i].v IN
                 /\ IsList(v) /\ Truthy(v) /\ IsDict(v.l[1])
                 /\ (Has(v.l[1], "question") \/ Has(v.l[1], "q"))
        S == {i \in 1..Len(api_data.d) : ok(i)}
    IN IF S = {} THEN 0 ELSE CHOOSE i \in S : \A j \in S : i <= j

\* Lines 153-166: the value iterated as `questions`, or an exception.
Questions(api_data) ==
    IF ~IsDict(api_data) THEN [exc |-> TRUE, v |-> JNull]
    ELSE IF Has(api_data, "questions")
    THEN [exc |-> FALSE, v |-> Get(api_data, "questions", JNull)]
    ELSE IF Has(api_data, "qa_pairs")
    THEN [exc |-> FALSE, v |-> Get(api_data, "qa_pairs", JNull)]
    ELSE IF Has(api_data, "results") /\ InRaises(Get(api_data, "results", JNull))
    THEN [exc |-> TRUE, v |-> JNull]
    ELSE IF Has(api_data, "results") /\ InHolds(Get(api_data, "results", JNull), "questions")
    THEN LET r == Get(api_data, "results", JNull) IN
         IF IsDict(r) THEN [exc |-> FALSE, v |-> Get(r, "questions", JNull)]
         ELSE [exc |-> TRUE, v |-> JNull]
    ELSE LET i == FirstCandidate(api_data) IN
         [exc |-> FALSE, v |-> IF i = 0 THEN JList(<<>>) ELSE api_data.d[i].v]

\* What `for item in questions` yields (line 169): a list's elements, a
\* dict's keys, a str's characters (one stands for all); iterating any
\* other value raises.
IterRaises(q) == q.t \in {"null", "bool", "num"}
IterItems(q) ==
    CASE q.t = "list" -> q.l
      [] q.t = "dict" -> [i \in 1..Len(q.d) |-> JStr(q.d[i].k)]
      [] q.t = "str"  -> IF q.s = "" THEN <<>> ELSE <<JStr(q.s)>>
      [] OTHER -> <<>>

\* Mutant: the empty-question check of line 184 is missing.
KeepPairs_NoSkip(items) == [i \in 1..Len(items) |-> QaPair(items[i])]

RECURSIVE KeepPairs(_)
\* Lines 169-188 over dict items: append the pair unless its question is falsy.
KeepPairs(items) ==
    IF items = <<>> THEN <<>>
    ELSE LET p == QaPair(Head(items)) IN
         IF Truthy(p.question) THEN <<p>> \o KeepPairs(Tail(items))
         ELSE KeepPairs(Tail(items))

\* _extract_qa_pairs: item.get on a non-dict item raises, and every
\* exception is answered with [] (lines 193-195).
ExtractQaPairs(api_data0) ==
    LET api_data == UnwrapOutput(api_data0)
        q == Questions(api_data)
    IN IF q.exc \/ IterRaises(q.v) THEN <<>>
       ELSE LET items == IterItems(q.v) IN
            IF \E i \in 1..Len(items) : ~IsDict(items[i]) THEN <<>>
            ELSE KeepPairs(items)


\* ------------------------------------------------------------------------
\* State
\* ------------------------------------------------------------------------
VARIABLES
    nItems,     \* the question items the webhook is about to deliver
    nShape,     \* the body shape it delivers them in
    nStage,     \* "idle" | "sent" | "received" | "extracted" | "direct"
    nBody,      \* the HTTP 200 body: [json |-> is it JSON, v |-> its value]
    nResp,      \* what _make_request returned
    nPairs,     \* what _extract_qa_pairs returned
    nFirst,     \* the first tolerated shape nItems came in, and the pairs it gave
    rHist,      \* one _make_request call: what each attempt so far met
    rStage,     \* "loop" while the for loop runs, "returned" afterwards
    rResult,    \* the dict the call returned
    jobs,       \* ProcessingJob table: id -> row
    qas,        \* QuestionAnswer table: job id -> rows in creation order
    files,      \* files in MEDIA_ROOT: <<"upload" | "output", job id>>
    threads,    \* background threads: job id -> [pc, job, pending, err]
    started,    \* job id -> number of Thread.start() calls made for it
    nextId,     \* the id the next ProcessingJob row gets
    resp,       \* the last HTTP request served and its response
    sessions,   \* ExamSession table: id -> row
    evals,      \* ShortAnswerEvaluation rows, one per (exam_session, question)
    answers,    \* ExamAnswer rows, one per (exam_session, question)
    flashcards, \* FlashcardSession table: id -> row
    elapsed,    \* per exam session: its time limit has run out
    starting,   \* start_exam requests between counting attempts and creating
    loaded,     \* exam requests between loading the session and saving it
    lbShape,    \* leaderboard: how the completed exams are spread over the users
    lbCount,    \* leaderboard: the number of users with a completed exam
    lb,         \* the last leaderboard response, of the view or of the API
    sent,       \* the fields of the webhook requests made, in order
    disk,       \* qa_outputs directory: output path -> the JSON written there
    now,        \* int(time.time())
    saved,      \* job id -> what _save_qa_pairs was given and the path it returned
    config,     \* ExamConfiguration.get_current_config()
    hooks       \* exam session id -> calls of send_exam_completion_webhook for it

normVars == <<nItems, nShape, nStage, nBody, nResp, nPairs, nFirst>>
reqVars == <<rHist, rStage, rResult>>
jobVars == <<jobs, qas, files, threads, started, nextId, resp>>
walkVars == <<flashcards, elapsed, starting, loaded>>
examVars == <<sessions, evals, answers, walkVars>>
boardVars == <<lbShape, lbCount, lb>>
diskVars == <<disk, now, saved>>
sideVars == <<boardVars, sent, diskVars, config, hooks>>
vars == <<normVars, reqVars, jobVars, examVars, sideVars>>

\* What the actions of each part leave alone.
notNorm == <<reqVars, jobVars, examVars, sideVars>>
notReq == <<normVars, jobVars, examVars, sideVars>>
notJobs == <<normVars, reqVars, examVars, sideVars>>

\* ------------------------------------------------------------------------
\* Webhook bodies
\* ------------------------------------------------------------------------
\* Question items as n8n sends them, well-formed and not.
ItemQA == JDict(<<E("question", JStr("Q1")), E("answer", JStr("A1"))>>)
ItemShortKeys == JDict(<<E("q", JStr("Q2")), E("a", JStr("A2"))>>)
ItemEmptyText == JDict(<<E("question", JStr("")), E("answer", JStr("A3"))>>)
ItemNoQuestion == JDict(<<E("answer", JStr("A4"))>>)
ItemBothKeys == JDict(<<E("question", JStr("")), E("q", JStr("Q5"))>>)
ItemTyped == JDict(<<E("question", JStr("Q6")), E("question_type", JStr("SHORT"))>>)
ItemJunk == JStr("junk")

QuestionObjects == {ItemQA, ItemShortKeys, ItemEmptyText, ItemNoQuestion,
                    ItemBothKeys, ItemTyped}
Items == QuestionObjects \cup {ItemJunk}

ItemLists == UNION {[1..n -> Items] : n \in 0..MaxItems}

\* The shapes the provider's comments document, the ones the processor's
\* test exercises, and bodies neither expects.
DocumentedShapes == {"success_data", "list_output", "questions"}
ToleratedShapes == DocumentedShapes \cup {"dict_output", "bare_list"}
ExtractorShapes == {"questions", "qa_pairs", "results", "misc", "output_data"}
OtherShapes == {"output_questions", "list_questions", "success_false",
                "data_list", "questions_null", "results_null",
                "not_json", "scalar", "empty_list"}
Shapes == ToleratedShapes \cup ExtractorShapes \cup OtherShapes

Questions1(items) == JDict(<<E("questions", JList(items))>>)
SuccessData(ok, items) ==
    JDict(<<E("success", JBool(ok)), E("data", Questions1(items))>>)

BodyOf(shape, items) ==
    CASE shape = "success_data" -> [json |-> TRUE, v |-> SuccessData(TRUE, items)]
      [] shape = "list_output" ->
            [json |-> TRUE,
             v |-> JList(<<JDict(<<E("output", SuccessData(TRUE, items))>>)>>)]
      [] shape = "dict_output" ->
            [json |-> TRUE, v |-> JDict(<<E("output", SuccessData(TRUE, items))>>)]
      [] shape = "questions" -> [json |-> TRUE, v |-> Questions1(items)]
      [] shape = "bare_list" -> [json |-> TRUE, v |-> JList(items)]
      [] shape = "qa_pairs" ->
            [json |-> TRUE, v |-> JDict(<<E("qa_pairs", JList(items))>>)]
      [] shape = "results" ->
            [json |-> TRUE, v |-> JDict(<<E("results", Questions1(items))>>)]
      [] shape = "misc" ->
            [json |-> TRUE,
             v |-> JDict(<<E("count", JNum("2")), E("misc", JList(items))>>)]
      [] shape = "output_data" ->
            [json |-> TRUE,
             v |-> JDict(<<E("output", JDict(<<E("data", Questions1(items))>>))>>)]
      [] shape = "output_questions" ->
            [json |-> TRUE, v |-> JDict(<<E("output", Questions1(items))>>)]
      [] shape = "list_questions" ->
            [json |-> TRUE, v |-> JList(<<Questions1(items)>>)]
      [] shape = "success_false" ->
            [json |-> TRUE, v |-> SuccessData(FALSE, items)]
      [] shape = "data_list" ->
            [json |-> TRUE, v |-> JDict(<<E("data", JList(items))>>)]
      [] shape = "questions_null" ->
            [json |-> TRUE, v |-> JDict(<<E("questions", JNull)>>)]
      [] shape = "results_null" ->
            [json |-> TRUE, v |-> JDict(<<E("results", JNull)>>)]
      [] shape = "not_json" -> [json |-> FALSE, v |-> JStr("<html>")]
      [] shape = "scalar" -> [json |-> TRUE, v |-> JStr("ok")]
      [] shape = "empty_list" -> [json |-> TRUE, v |-> JList(<<>>)]

\* response.json() inside try/except (provider.py lines 100-103)
ParseJson(body) == IF body.json THEN body.v ELSE JNull

NoBody == [json |-> FALSE, v |-> JNull]
NoResp == [success |-> FALSE, data |-> JNull, status_code |-> 0, error |-> ""]
NotRun == [run |-> FALSE, shape |-> "", pairs |-> <<>>]

\* ------------------------------------------------------------------------
\* provider.py, APIService._make_request: the retry loop
\* ------------------------------------------------------------------------
max_retries == 3

\* What one attempt can meet: an HTTP response (200 with a body, or another
\* status), requests.exceptions.Timeout, ConnectionError, or another exception.
Out200(shape, items) ==
    [kind |-> "response", code |-> 200, shape |-> shape, items |-> items]
OutHttp(code) == [kind |-> "response", code |-> code, shape |-> "", items |-> <<>>]
OutTimeout == [kind |-> "timeout", code |-> 0, shape |-> "", items |-> <<>>]
OutConnection == [kind |-> "connection", code |-> 0, shape |-> "", items |-> <<>>]
OutException == [kind |-> "exception", code |-> 0, shape |-> "", items |-> <<>>]

Failure(error, status_code) ==
    [success |-> FALSE, data |-> JNull, status_code |-> status_code, error |-> error]

\* The 'error' each except clause reports (lines 158-161, 168-171, 178-181).
ErrorOf(kind) ==
    CASE kind = "timeout" -> "Request timeout"
      [] kind = "connection" -> "Connection error"
      [] OTHER -> "str(e)"

AttemptStep_RetryHttpError(attempt, o) ==
    IF o.kind = "response" /\ o.code = 200
    THEN [done |-> TRUE,
          result |-> Response200(ParseJson(BodyOf(o.shape, o.items)))]
    ELSE IF attempt = max_retries - 1
         THEN [done |-> TRUE,
               result |-> IF o.kind = "response" THEN Failure("API Error", o.code)
                          ELSE Failure(ErrorOf(o.kind), 0)]
         ELSE [done |-> FALSE, result |-> NoResp]

\* One pass of the loop body (lines 78-183); attempt counts from 0.
AttemptStep(attempt, o) ==
    IF o.kind = "response"
    THEN [done |-> TRUE,
          result |-> IF o.code = 200
                     THEN Response200(ParseJson(BodyOf(o.shape, o.items)))
                     ELSE Failure("API Error", o.code)]
    ELSE IF attempt = max_retries - 1
         THEN [done |-> TRUE, result |-> Failure(ErrorOf(o.kind), 0)]
         ELSE [done |-> FALSE, result |-> NoResp]

\* Lines 185-189, after the loop.
MaxRetriesExceeded == Failure("Max retries exceeded", 0)

\* A whole call, given what its attempts meet in order.
RECURSIVE RunFrom(_, _)
RunFrom(attempt, run) ==
    IF attempt >= max_retries \/ run = <<>>
    THEN MaxRetriesExceeded
    ELSE LET step == AttemptStep(attempt, Head(run)) IN
         IF step.done THEN step.result ELSE RunFrom(attempt + 1, Tail(run))

MakeRequest(run) == RunFrom(0, run)

\* ------------------------------------------------------------------------
\* Users, uploads and rows
\* ------------------------------------------------------------------------
Users == {"alice", "bob"}
JobIds == 1..MaxJobs

\* An uploaded file: its name split at the dots, its size in bytes, and
\* whether its text is blank.  NoUpload is a request without a file.
MaxUploadBytes == 10 * 1024 * 1024
Upload(name, size, blank) ==
    [present |-> TRUE, name |-> name, size |-> size, blank |-> blank]
NoUpload == [present |-> FALSE, name |-> <<>>, size |-> 0, blank |-> TRUE]
UpPdf == Upload(<<"report", "PDF">>, 1, FALSE)
UpLimit == Upload(<<"scan", "png">>, MaxUploadBytes, FALSE)
UpBig == Upload(<<"scan", "png">>, MaxUploadBytes + 1, FALSE)
UpExe == Upload(<<"setup", "exe">>, 1, FALSE)
UpNoDot == Upload(<<"pdf">>, 1, FALSE)
UpTxt == Upload(<<"notes", "txt">>, 1, FALSE)
UpTxtBlank == Upload(<<"empty", "txt">>, 0, TRUE)
Uploads == {NoUpload, UpPdf, UpLimit, UpBig, UpExe, UpNoDot, UpTxt, UpTxtBlank}

\* str.lower() on the name parts in use.
Lower(part) == IF part = "PDF" THEN "pdf" ELSE part

\* num_questions as posted, and as stored: None or an integer.
PostedNums == {"absent", "3", "0", "x"}
IsIntText(t) == t \in {"3", "0", "-2"}
IntOf(t) == IF t = "3" THEN 3 ELSE IF t = "-2" THEN 0 - 2 ELSE 0
NumNone == [set |-> FALSE, n |-> 0]
NumOf(n) == [set |-> TRUE, n |-> n]

\* A ProcessingJob row.  via is the model method that wrote the row last:
\* "create", "save", "mark_completed" or "mark_failed".
NoJob ==
    [exists |-> FALSE, user |-> "", status |-> "", document_type |-> "",
     document_file |-> FALSE, output_file |-> FALSE, num_questions |-> NumNone,
     error_message |-> "", via |-> ""]
NewJob(user, num_questions, status, document_type) ==
    [exists |-> TRUE, user |-> user, status |-> status,
     document_type |-> document_type, document_file |-> FALSE,
     output_file |-> FALSE, num_questions |-> num_questions,
     error_message |-> "", via |-> "create"]

\* ProcessingJob.mark_completed / mark_failed (apps/brain/models.py): set the
\* status and save the row.
mark_completed(job) ==
    [job EXCEPT !.status = "completed", !.via = "mark_completed"]
mark_failed(job, error_message) ==
    [job EXCEPT !.status = "failed", !.error_message = error_message,
                !.via = "mark_failed"]

\* job.save(): Django updates the row with this primary key and inserts it
\* when no row was updated.
Save(table, id, job) == [table EXCEPT ![id] = job]

\* ProcessingJob.objects.get / get_object_or_404(ProcessingJob, id=, user=)
Owns(user, id) == jobs[id].exists /\ jobs[id].user = user

\* A QuestionAnswer row from one item of the output file's 'questions'.
QaRow(pair, question_type) ==
    [question |-> pair.question, answer |-> pair.answer,
     question_type |-> question_type]

NoThread == [pc |-> "none", job |-> NoJob, pending |-> <<>>, err |-> ""]

\* A request and its response.  keys are the keys of the JSON body.
NoResponse ==
    [op |-> "", user |-> "", job_id |-> 0, code |-> 0, success |-> FALSE,
     error |-> "", keys |-> {}, status |-> "", questions |-> <<>>,
     listed |-> {}, upload |-> NoUpload, sources |-> {}]
Answered(op, user, job_id, code, success, error) ==
    [NoResponse EXCEPT !.op = op, !.user = user, !.job_id = job_id,
                       !.code = code, !.success = success, !.error = error]

\* An ExamSession row (apps/dashboard/models.py).  questions_order lists the
\* ids of QuestionAnswer rows; the id of a row is <<its job, its position>>.
SessionIds == 1..MaxSessions
NoSession ==
    [exists |-> FALSE, user |-> "", processing_job |-> 0, status |-> "",
     questions_order |-> <<>>, current_question_index |-> 0,
     attempt_number |-> 0, total_questions |-> 0, total_score |-> 0,
     allow_navigation |-> FALSE]

\* A FlashcardSession row (apps/dashboard/models.py).
FlashIds == 1..MaxFlash
NoFlash ==
    [exists |-> FALSE, user |-> "", processing_job |-> 0, status |-> "",
     cards_order |-> <<>>, current_card_index |-> 0, total_cards |-> 0]

\* Requests under way: two can be in flight at a time.
Slots == {1, 2}
NoStart == [op |-> "", user |-> "", job |-> 0, order |-> <<>>, user_attempts |-> 0]
NoLoad == [op |-> "", x |-> 0, es |-> NoSession]

\* resp holds the response of the request just served until the client has
\* taken it; nothing else moves in between, so that a response is always read
\* against the state it was computed from.
Idle == resp = NoResponse

\* Nothing requested, nothing stored.
ReqAtRest == rHist = <<>> /\ rStage = "loop" /\ rResult = NoResp
JobsAtRest ==
    /\ jobs = [j \in JobIds |-> NoJob]
    /\ qas = [j \in JobIds |-> <<>>]
    /\ files = {}
    /\ threads = [j \in JobIds |-> NoThread]
    /\ started = [j \in JobIds |-> 0]
    /\ nextId = 1
    /\ resp = NoResponse
ExamAtRest ==
    /\ sessions = [x \in SessionIds |-> NoSession]
    /\ evals = {}
    /\ answers = {}
    /\ flashcards = [f \in FlashIds |-> NoFlash]
    /\ elapsed = [x \in SessionIds |-> FALSE]
    /\ starting = [s \in Slots |-> NoStart]
    /\ loaded = [s \in Slots |-> NoLoad]
\* No leaderboard asked for, no webhook request made, no output file written.
\* current_user_rank 0 stands for None: ranks start at 1.
NoBoard == [op |-> "", user |-> 0, leaderboard |-> <<>>, current_user_rank |-> 0]
\* The configuration in force, and no webhook sent.
DefaultConfig == [allow_question_navigation |-> TRUE]
NoSave ==
    [called |-> FALSE, qa_pairs |-> <<>>, output_path |-> <<>>, qa_count |-> 0,
     returned |-> FALSE]
SideAtRest ==
    /\ lbShape = "falling"
    /\ lbCount = 0
    /\ lb = NoBoard
    /\ sent = <<>>
    /\ disk = <<>>
    /\ now = 0
    /\ saved = [j \in JobIds |-> NoSave]
    /\ config = DefaultConfig
    /\ hooks = [x \in SessionIds |-> 0]
NormAtRest ==
    /\ nItems = <<>>
    /\ nShape = "questions"
    /\ nStage = "idle"
    /\ nBody = NoBody
    /\ nResp = NoResp
    /\ nPairs = <<>>
    /\ nFirst = NotRun



\* ------------------------------------------------------------------------
\* The webhook answers 200 and the client normalizes and extracts
\* ------------------------------------------------------------------------
InitNorm ==
    /\ nItems \in ItemLists
    /\ nShape = "questions"
    /\ nStage = "idle"
    /\ nBody = NoBody
    /\ nResp = NoResp
    /\ nPairs = <<>>
    /\ nFirst = NotRun
    /\ ReqAtRest
    /\ JobsAtRest
    /\ ExamAtRest
    /\ SideAtRest

\* n8n answers the request with nItems in one of its shapes.
WebhookAnswers(shape) ==
    /\ nStage = "idle"
    /\ nShape' = shape
    /\ nBody' = BodyOf(shape, nItems)
    /\ nStage' = "sent"
    /\ UNCHANGED <<nItems, nResp, nPairs, nFirst>>
    /\ UNCHANGED notNorm

\* _make_request receives the 200 response.
MakeRequest200 ==
    /\ nStage = "sent"
    /\ nResp' = Response200(ParseJson(nBody))
    /\ nStage' = "received"
    /\ UNCHANGED <<nItems, nShape, nBody, nPairs, nFirst>>
    /\ UNCHANGED notNorm

\* process_document / process_text: _extract_qa_pairs(response['data'])
\* (processor.py lines 65-66 and 114-115).
ExtractAfterRequest ==
    /\ nStage = "received"
    /\ nPairs' = ExtractQaPairs(nResp.data)
    /\ nStage' = "extracted"
    /\ nFirst' = IF nShape \in ToleratedShapes /\ ~nFirst.run
                 THEN [run |-> TRUE, shape |-> nShape,
                       pairs |-> ExtractQaPairs(nResp.data)]
                 ELSE nFirst
    /\ UNCHANGED <<nItems, nShape, nBody, nResp>>
    /\ UNCHANGED notNorm

\* _extract_qa_pairs called on the data as delivered, as test_processor.py does.
ExtractDirect ==
    /\ nStage = "sent"
    /\ nBody.json
    /\ nPairs' = ExtractQaPairs(nBody.v)
    /\ nResp' = NoResp
    /\ nStage' = "direct"
    /\ UNCHANGED <<nItems, nShape, nBody, nFirst>>
    /\ UNCHANGED notNorm

\* The next request for the same items.
NextRequest ==
    /\ nStage \in {"extracted", "direct"}
    /\ nStage' = "idle"
    /\ nShape' = "questions"
    /\ nBody' = NoBody
    /\ nResp' = NoResp
    /\ nPairs' = <<>>
    /\ UNCHANGED <<nItems, nFirst>>
    /\ UNCHANGED notNorm

NextNorm ==
    \/ \E shape \in Shapes : WebhookAnswers(shape)
    \/ MakeRequest200
    \/ ExtractAfterRequest
    \/ ExtractDirect
    \/ NextRequest

SpecNorm == InitNorm /\ [][NextNorm]_vars


\* ------------------------------------------------------------------------
\* One call of _make_request, attempt by attempt
\* ------------------------------------------------------------------------
ReqOutcomes ==
    {Out200(shape, <<ItemQA>>) : shape \in Shapes}
        \cup {OutHttp(400), OutHttp(500), OutTimeout, OutConnection, OutException}

InitReq == ReqAtRest /\ NormAtRest /\ JobsAtRest /\ ExamAtRest /\ SideAtRest

\* The loop body runs once more: `for attempt in range(max_retries)` sends
\* the request (line 83 or 89) and meets o.  It returns, or sleeps and goes
\* round again, or leaves the loop for the return at line 185.
Attempt(o) ==
    LET attempt == Len(rHist)
        step == AttemptStep(attempt, o)
    IN
    /\ rStage = "loop"
    /\ attempt < max_retries
    /\ rHist' = Append(rHist, o)
    /\ IF step.done
       THEN rStage' = "returned" /\ rResult' = step.result
       ELSE IF attempt + 1 < max_retries
            THEN rStage' = "loop" /\ rResult' = rResult
            ELSE rStage' = "returned" /\ rResult' = MaxRetriesExceeded
    /\ UNCHANGED notReq

NextReq == \E o \in ReqOutcomes : Attempt(o)

SpecReq == InitReq /\ [][NextReq]_vars


\* ------------------------------------------------------------------------
\* processor.py: process_document, process_text
\* ------------------------------------------------------------------------
Raised(err) == [ok |-> FALSE, err |-> err, pairs |-> <<>>]
Written(pairs) == [ok |-> TRUE, err |-> "", pairs |-> pairs]

\* process_document / process_text from the API response on (lines 61-74,
\* 110-123): the pairs written to the output file, or the exception raised.
FromResponse(response, failed) ==
    IF ~response.success
    THEN Raised(failed)
    ELSE LET qa_pairs == ExtractQaPairs(response.data) IN
         IF qa_pairs = <<>>
         THEN Raised("No Q&A pairs generated from API response")
         ELSE Written(qa_pairs)

\* APIDocumentProcessor.process_document over APIService.process_document:
\* a file that cannot be read makes the service return success False.
ProcessorProcessDocument(readable, run) ==
    FromResponse(IF readable THEN MakeRequest(run) ELSE Failure("str(e)", 0),
                 "API processing failed")

\* APIDocumentProcessor.process_text over APIService.generate_questions.
ProcessorProcessText(blank, run) ==
    IF blank
    THEN Raised("No text provided for processing")
    ELSE FromResponse(MakeRequest(run), "API question generation failed")

\* What the webhook does on the attempts of one call, in order.
RunOk == <<Out200("success_data", <<ItemQA, ItemTyped>>)>>
RunOkAfterTimeout == <<OutTimeout, Out200("list_output", <<ItemQA, ItemTyped>>)>>
RunEmpty == <<Out200("questions", <<>>)>>
RunHttpError == <<OutHttp(500)>>
RunTimeouts == <<OutTimeout, OutTimeout, OutTimeout>>
Runs == {RunOk, RunOkAfterTimeout, RunEmpty, RunHttpError, RunTimeouts}

\* Both calls tabulated over the runs.
DocumentOutcome ==
    [readable \in BOOLEAN, run \in Runs |-> ProcessorProcessDocument(readable, run)]
TextOutcome ==
    [blank \in BOOLEAN, run \in Runs |-> ProcessorProcessText(blank, run)]

\* ------------------------------------------------------------------------
\* dashboard/views.py: api_process_document, and services.py
\* ------------------------------------------------------------------------
DashAllowed == {"pdf", "jpg", "jpeg", "png"}
DashExt(name) == Lower(name[Len(name)])
DashNum(posted) ==
    IF posted # "absent" /\ IsIntText(posted) THEN NumOf(IntOf(posted)) ELSE NumNone

\* The document_type a job gets when none is given; not 'text'.
DefaultType == "document"

ProcessJobInBackground_Twice(count) == count + 2

\* BackgroundProcessor.process_job_in_background: one Thread, one start().
ProcessJobInBackground(count) == count + 1

api_process_document(user, up, posted, stored) ==
    LET op == "api_process_document"
        id == nextId
        job == NewJob(user, DashNum(posted), "pending", DefaultType)
        answer(code, error) ==
            [Answered(op, user, 0, code, FALSE, error) EXCEPT !.upload = up]
    IN
    IF ~up.present
    THEN /\ resp' = answer(400, "No document file provided")
         /\ UNCHANGED <<jobs, qas, files, threads, started, nextId>>
    ELSE IF DashExt(up.name) \notin DashAllowed
    THEN /\ resp' = answer(400, "Invalid file type")
         /\ UNCHANGED <<jobs, qas, files, threads, started, nextId>>
    ELSE IF up.size > MaxUploadBytes
    THEN /\ resp' = answer(400, "File size too large")
         /\ UNCHANGED <<jobs, qas, files, threads, started, nextId>>
    ELSE /\ id <= MaxJobs
         /\ nextId' = id + 1
         /\ IF ~stored
            THEN \* default_storage.save raises: the outer except answers 500
                 /\ jobs' = Save(jobs, id, job)
                 /\ resp' = answer(500, "Upload failed")
                 /\ UNCHANGED <<qas, files, threads, started>>
            ELSE /\ jobs' = Save(jobs, id, [job EXCEPT !.document_file = TRUE,
                                                      !.via = "save"])
                 /\ files' = files \cup {<<"upload", id>>}
                 /\ threads' = [threads EXCEPT ![id] = [NoThread EXCEPT !.pc = "start"]]
                 /\ started' = [started EXCEPT ![id] = ProcessJobInBackground(@)]
                 /\ resp' = [Answered(op, user, id, 200, TRUE, "")
                                EXCEPT !.upload = up, !.keys = {"success", "job_id"}]
                 /\ UNCHANGED qas

\* The requests made of it: every upload, and the good one with
\* num_questions absent or not a number, and with the storage failing.
DashRequests ==
    {[up |-> up, posted |-> "absent", stored |-> TRUE] : up \in Uploads}
        \cup {[up |-> UpPdf, posted |-> posted, stored |-> stored] :
                 posted \in {"absent", "x"}, stored \in BOOLEAN}

ApiProcessDocument ==
    /\ Idle
    /\ \E user \in Users, r \in DashRequests :
          api_process_document(user, r.up, r.posted, r.stored)
    /\ UNCHANGED notJobs

\* ------------------------------------------------------------------------
\* services.py: _process_job_thread, and processor.py: process_with_job
\* ------------------------------------------------------------------------
\* pc of a thread:
\*   "start"    started, about to re-fetch the job (services.py line 40)
\*   "begin"    in process_with_job, before job.save() (processor.py line 252)
\*   "process"  before the text / document branch (line 256)
\*   "create"   in the loop creating QuestionAnswer rows (line 288)
\*   "failed"   an exception is on its way to line 315
\*   "critical" an exception is on its way to services.py line 59
\*   "done"     the thread has ended
At(j, pc) == threads[j].pc = pc
Goto(j, pc) == [threads EXCEPT ![j].pc = pc]
Fail(j, pc, err) == [threads EXCEPT ![j].pc = pc, ![j].err = err]
Ended == [NoThread EXCEPT !.pc = "done"]

\* Lines 39-46: re-fetch the job, build the processor.
ThreadStart(j, raises) ==
    /\ At(j, "start")
    /\ threads' =
          IF ~jobs[j].exists THEN [threads EXCEPT ![j] = Ended]
          ELSE IF raises THEN Fail(j, "critical", "str(e)")
          ELSE [threads EXCEPT ![j].pc = "begin", ![j].job = jobs[j]]
    /\ UNCHANGED <<jobs, qas, files, started, nextId, resp>>
    /\ UNCHANGED notJobs

SetProcessing_Completed(job) ==
    [job EXCEPT !.status = "completed", !.via = "save"]

\* processor.py lines 252-253 (and views.py lines 82-83)
SetProcessing(job) == [job EXCEPT !.status = "processing", !.via = "save"]

ThreadSetProcessing(j) ==
    LET job == SetProcessing(threads[j].job) IN
    /\ At(j, "begin")
    /\ jobs' = Save(jobs, j, job)
    /\ threads' = [threads EXCEPT ![j].pc = "process", ![j].job = job]
    /\ UNCHANGED <<qas, files, started, nextId, resp>>
    /\ UNCHANGED notJobs

\* Lines 256-284: the branch on document_type, the API call, the output file
\* written and read back.
ProcessBranch(job, readable, run) ==
    IF job.document_type = "text"
    THEN Raised("No text content available for processing")
    ELSE IF ~job.document_file
         THEN Raised("No document file available for processing")
         ELSE DocumentOutcome[readable, run]

RowsOfItems(pairs) == [i \in 1..Len(pairs) |-> QaRow(pairs[i], pairs[i].question_type)]

ThreadProcess(j, run) ==
    LET out == ProcessBranch(threads[j].job, <<"upload", j>> \in files, run) IN
    /\ At(j, "process")
    /\ IF out.ok
       THEN /\ files' = files \cup {<<"output", j>>}
            /\ threads' = [threads EXCEPT ![j].pc = "create",
                                          ![j].pending = RowsOfItems(out.pairs)]
       ELSE /\ files' = files
            /\ threads' = Fail(j, "failed", out.err)
    /\ UNCHANGED <<jobs, qas, started, nextId, resp>>
    /\ UNCHANGED notJobs

\* Lines 288-298, one pass: the row's job must still be there.
ThreadCreateQuestion(j) ==
    /\ At(j, "create")
    /\ threads[j].pending # <<>>
    /\ IF jobs[j].exists
       THEN /\ qas' = [qas EXCEPT ![j] = Append(@, Head(threads[j].pending))]
            /\ threads' = [threads EXCEPT ![j].pending = Tail(@)]
       ELSE /\ qas' = qas
            /\ threads' = Fail(j, "failed", "IntegrityError")
    /\ UNCHANGED <<jobs, files, started, nextId, resp>>
    /\ UNCHANGED notJobs

\* Lines 301-304
ThreadComplete(j) ==
    LET job == mark_completed([threads[j].job EXCEPT !.output_file = TRUE]) IN
    /\ At(j, "create")
    /\ threads[j].pending = <<>>
    /\ jobs' = Save(jobs, j, job)
    /\ threads' = [threads EXCEPT ![j] = Ended]
    /\ UNCHANGED <<qas, files, started, nextId, resp>>
    /\ UNCHANGED notJobs

\* Any statement inside the try of process_with_job raises.
ThreadRaise(j) ==
    /\ threads[j].pc \in {"begin", "process", "create"}
    /\ threads' = Fail(j, "failed", "str(e)")
    /\ UNCHANGED <<jobs, qas, files, started, nextId, resp>>
    /\ UNCHANGED notJobs

ThreadHandleError_Forget(j) ==
    /\ At(j, "failed")
    /\ threads' = [threads EXCEPT ![j] = Ended]
    /\ UNCHANGED <<jobs, qas, files, started, nextId, resp>>
    /\ UNCHANGED notJobs

\* Lines 315-322: except Exception -> job.mark_failed(str(e))
ThreadHandleError(j) ==
    /\ At(j, "failed")
    /\ jobs' = Save(jobs, j, mark_failed(threads[j].job, threads[j].err))
    /\ threads' = [threads EXCEPT ![j] = Ended]
    /\ UNCHANGED <<qas, files, started, nextId, resp>>
    /\ UNCHANGED notJobs

\* services.py lines 59-66: re-fetch and mark_failed, or pass.
ThreadCriticalError(j) ==
    /\ At(j, "critical")
    /\ jobs' = IF jobs[j].exists
               THEN Save(jobs, j, mark_failed(jobs[j], "System error"))
               ELSE jobs
    /\ threads' = [threads EXCEPT ![j] = Ended]
    /\ UNCHANGED <<qas, files, started, nextId, resp>>
    /\ UNCHANGED notJobs

ThreadStep(j) ==
    \/ \E raises \in BOOLEAN : ThreadStart(j, raises)
    \/ ThreadSetProcessing(j)
    \/ \E run \in Runs : ThreadProcess(j, run)
    \/ ThreadCreateQuestion(j)
    \/ ThreadComplete(j)
    \/ ThreadRaise(j)
    \/ ThreadHandleError(j)
    \/ ThreadCriticalError(j)

\* ------------------------------------------------------------------------
\* brain/views.py: process_document, process_text
\* ------------------------------------------------------------------------
BrainAllowed == {"pdf", "jpg", "jpeg", "png", "txt"}

\* Path(name).suffix.lower(), without its dot: "" when the name has no dot
\* after its first character or ends with one.
BrainSuffix(name) ==
    IF Len(name) < 2 \/ (Len(name) = 2 /\ name[1] = "") \/ name[Len(name)] = ""
    THEN ""
    ELSE Lower(name[Len(name)])

\* views.py lines 51-60: a posted value that is truthy must be a positive int.
BrainNum(posted) ==
    IF posted = "absent" THEN [ok |-> TRUE, num |-> NumNone]
    ELSE IF IsIntText(posted) /\ IntOf(posted) > 0
         THEN [ok |-> TRUE, num |-> NumOf(IntOf(posted))]
         ELSE [ok |-> FALSE, num |-> NumNone]

\* views.py lines 197-207: the value comes from JSON, "3" and "0" as numbers;
\* the number 0 is falsy and is kept as it is.
TextNum(posted) ==
    IF posted = "absent" THEN [ok |-> TRUE, num |-> NumNone]
    ELSE IF IsIntText(posted) /\ IntOf(posted) = 0
         THEN [ok |-> TRUE, num |-> NumOf(0)]
         ELSE BrainNum(posted)

\* The rows the views create: question_type is the request's, not the item's.
RowsOfRequest(pairs, question_type) ==
    [i \in 1..Len(pairs) |-> QaRow(pairs[i], JStr(question_type))]

\* The inner try of both views (lines 81-146 and 219-267): Q&A rows and
\* mark_completed, or mark_failed and 500.
ProcessInView(op, user, id, job, out, upload, question_type) ==
    /\ nextId' = id + 1
    /\ files' = files \cup upload \cup (IF out.ok THEN {<<"output", id>>} ELSE {})
    /\ UNCHANGED <<threads, started>>
    /\ IF out.ok
       THEN /\ qas' = [qas EXCEPT ![id] = RowsOfRequest(out.pairs, question_type)]
            /\ jobs' = Save(jobs, id, mark_completed([job EXCEPT !.output_file = TRUE]))
            /\ resp' = [Answered(op, user, id, 200, TRUE, "")
                           EXCEPT !.keys = {"success", "job_id", "qa_count"}]
       ELSE /\ qas' = qas
            /\ jobs' = Save(jobs, id, mark_failed(job, out.err))
            /\ resp' = Answered(op, user, id, 500, FALSE, "Processing failed")

process_document(user, up, posted, question_type, run) ==
    LET op == "process_document"
        id == nextId
        num == BrainNum(posted)
        file_ext == BrainSuffix(up.name)
        job == SetProcessing([NewJob(user, num.num, "pending", DefaultType)
                                 EXCEPT !.document_file = TRUE])
        out == IF file_ext = "txt"
               THEN TextOutcome[up.blank, run]
               ELSE DocumentOutcome[TRUE, run]
        reject(error) ==
            /\ resp' = [Answered(op, user, 0, 400, FALSE, error) EXCEPT !.upload = up]
            /\ UNCHANGED <<jobs, qas, files, threads, started, nextId>>
    IN
    IF ~up.present THEN reject("No document file provided")
    ELSE IF file_ext \notin BrainAllowed THEN reject("Unsupported file type")
    ELSE IF ~num.ok THEN reject("Invalid number of questions")
    ELSE /\ id <= MaxJobs
         /\ ProcessInView(op, user, id, job, out, {<<"upload", id>>}, question_type)

BrainRequests ==
    {[up |-> up, posted |-> "absent", run |-> RunOk] : up \in Uploads}
        \cup {[up |-> UpPdf, posted |-> posted, run |-> RunOk] :
                 posted \in PostedNums \ {"3"}}
        \cup {[up |-> up, posted |-> "absent", run |-> run] :
                 up \in {UpPdf, UpTxt}, run \in Runs}

ProcessDocument ==
    /\ Idle
    /\ \E user \in Users, r \in BrainRequests :
          process_document(user, r.up, r.posted, "MULTIPLECHOICE", r.run)
    /\ UNCHANGED notJobs

process_text(user, blank, posted, run) ==
    LET op == "process_text"
        id == nextId
        num == TextNum(posted)
        job == NewJob(user, num.num, "processing", "text")
        reject(error) ==
            /\ resp' = Answered(op, user, 0, 400, FALSE, error)
            /\ UNCHANGED <<jobs, qas, files, threads, started, nextId>>
    IN
    IF blank THEN reject("No text provided")
    ELSE IF ~num.ok THEN reject("Invalid number of questions")
    ELSE /\ id <= MaxJobs
         /\ ProcessInView(op, user, id, job, TextOutcome[FALSE, run], {}, "MULTIPLECHOICE")

TextRequests ==
    {[blank |-> TRUE, posted |-> "absent", run |-> RunOk]}
        \cup {[blank |-> FALSE, posted |-> "x", run |-> RunOk]}
        \cup {[blank |-> FALSE, posted |-> "absent", run |-> run] : run \in Runs}

ProcessText ==
    /\ Idle
    /\ \E user \in Users, r \in TextRequests :
          process_text(user, r.blank, r.posted, r.run)
    /\ UNCHANGED notJobs

\* ------------------------------------------------------------------------
\* brain/views.py: get_job_status, get_job_results, download_results,
\* list_jobs, delete_job
\* ------------------------------------------------------------------------
\* Exception classes: django.http.Http404 and Model.DoesNotExist both derive
\* from Exception, and neither from the other.
IsA(exc, cls) == cls = exc \/ cls = "Exception"

\* get_object_or_404(ProcessingJob, id=job_id, user=request.user)
GetObjectOr404(user, id) == IF Owns(user, id) THEN "found" ELSE "Http404"

\* The first except clause of a handler that matches the exception.
Caught(clauses, exc) ==
    LET i == CHOOSE i \in 1..Len(clauses) :
                 /\ IsA(exc, clauses[i].cls)
                 /\ \A k \in 1..(i - 1) : ~IsA(exc, clauses[k].cls)
    IN clauses[i]

Unexpected ==
    <<[cls |-> "Exception", code |-> 500, error |-> "An unexpected error occurred"]>>
DeleteClauses ==
    <<[cls |-> "DoesNotExist", code |-> 404, error |-> "Quiz not found"],
      [cls |-> "Exception", code |-> 500, error |-> "Failed to delete quiz"]>>

Refused(op, user, id, clauses, exc) ==
    LET c == Caught(clauses, exc) IN
    [Answered(op, user, id, c.code, FALSE, c.error) EXCEPT !.keys = {"success", "error"}]

get_job_status_AlwaysQuestions(user, id) ==
    IF GetObjectOr404(user, id) # "found"
    THEN Refused("get_job_status", user, id, Unexpected, "Http404")
    ELSE [Answered("get_job_status", user, id, 200, TRUE, "")
             EXCEPT !.status = jobs[id].status,
                    !.keys = {"job_id", "status", "qa_count", "questions"},
                    !.questions = qas[id]]

get_job_status(user, id) ==
    LET job == jobs[id] IN
    IF GetObjectOr404(user, id) # "found"
    THEN Refused("get_job_status", user, id, Unexpected, "Http404")
    ELSE [Answered("get_job_status", user, id, 200, TRUE,
                   IF job.status = "failed" THEN job.error_message ELSE "")
             EXCEPT !.status = job.status,
                    !.sources = {job.user},
                    !.keys = {"job_id", "status"}
                        \cup (IF job.status = "failed" THEN {"error_message"} ELSE {})
                        \cup (IF job.status = "completed"
                              THEN {"qa_count", "questions"} ELSE {}),
                    !.questions = IF job.status = "completed" THEN qas[id] ELSE <<>>]

\* get_job_results and download_results differ in the keys around the
\* questions only.
Results(op, user, id, keys) ==
    IF GetObjectOr404(user, id) # "found"
    THEN Refused(op, user, id, Unexpected, "Http404")
    ELSE IF jobs[id].status # "completed"
    THEN [Answered(op, user, id, 400, FALSE, "Job is not completed yet")
             EXCEPT !.keys = {"success", "error"}]
    ELSE [Answered(op, user, id, 200, TRUE, "")
             EXCEPT !.keys = keys, !.questions = qas[id],
                    !.sources = {jobs[id].user}]

get_job_results(user, id) ==
    Results("get_job_results", user, id, {"success", "job_id", "qa_count", "questions"})
download_results(user, id) ==
    Results("download_results", user, id, {"total_questions", "questions"})

\* list_jobs: the ids of the user's jobs.
list_jobs(user) ==
    [Answered("list_jobs", user, 0, 200, TRUE, "")
        EXCEPT !.keys = {"success", "jobs"},
               !.listed = {j \in JobIds : Owns(user, j)},
               !.sources = {jobs[j].user : j \in {k \in JobIds : Owns(user, k)}}]

Reads == UNCHANGED <<jobs, qas, files, threads, started, nextId, notJobs>>

GetJobStatus ==
    /\ Idle
    /\ \E user \in Users, id \in JobIds : resp' = get_job_status(user, id)
    /\ Reads
GetJobResults ==
    /\ Idle
    /\ \E user \in Users, id \in JobIds : resp' = get_job_results(user, id)
    /\ Reads
DownloadResults ==
    /\ Idle
    /\ \E user \in Users, id \in JobIds : resp' = download_results(user, id)
    /\ Reads
ListJobs ==
    /\ Idle
    /\ \E user \in Users : resp' = list_jobs(user)
    /\ Reads

\* delete_job: the files the row names, the row, and by cascade its Q&A rows.
delete_job(user, id) ==
    IF GetObjectOr404(user, id) # "found"
    THEN /\ resp' = Refused("delete_job", user, id, DeleteClauses, "Http404")
         /\ UNCHANGED <<jobs, qas, files>>
    ELSE /\ files' = files \ ((IF jobs[id].document_file THEN {<<"upload", id>>} ELSE {})
                                \cup (IF jobs[id].output_file THEN {<<"output", id>>} ELSE {}))
         /\ jobs' = [jobs EXCEPT ![id] = NoJob]
         /\ qas' = [qas EXCEPT ![id] = <<>>]
         /\ resp' = [Answered("delete_job", user, id, 200, TRUE, "")
                        EXCEPT !.keys = {"success", "message"}]

DeleteJob ==
    /\ Idle
    /\ \E user \in Users, id \in JobIds : delete_job(user, id)
    /\ UNCHANGED <<threads, started, nextId, notJobs>>

\* ------------------------------------------------------------------------
\* Jobs, threads and the job views together
\* ------------------------------------------------------------------------
Init == JobsAtRest /\ NormAtRest /\ ReqAtRest /\ ExamAtRest /\ SideAtRest

\* The client takes the response.
ResponseTaken ==
    /\ ~Idle
    /\ resp' = NoResponse
    /\ UNCHANGED <<jobs, qas, files, threads, started, nextId, notJobs>>

Next ==
    \/ ApiProcessDocument
    \/ \E j \in JobIds, raises \in BOOLEAN : Idle /\ ThreadStart(j, raises)
    \/ \E j \in JobIds : Idle /\ ThreadSetProcessing(j)
    \/ \E j \in JobIds, run \in Runs : Idle /\ ThreadProcess(j, run)
    \/ \E j \in JobIds : Idle /\ ThreadCreateQuestion(j)
    \/ \E j \in JobIds : Idle /\ ThreadComplete(j)
    \/ \E j \in JobIds : Idle /\ ThreadRaise(j)
    \/ \E j \in JobIds : Idle /\ ThreadHandleError(j)
    \/ \E j \in JobIds : Idle /\ ThreadCriticalError(j)
    \/ ProcessDocument
    \/ ProcessText
    \/ GetJobStatus
    \/ GetJobResults
    \/ DownloadResults
    \/ ListJobs
    \/ DeleteJob
    \/ ResponseTaken

Spec == Init /\ [][Next]_vars

\* The upload endpoint with a good upload, its threads and delete_job.  A
\* started thread keeps running whatever requests are served meanwhile, and
\* every response is delivered.
UploadDocument ==
    /\ Idle
    /\ \E user \in Users : api_process_document(user, UpPdf, "absent", TRUE)
    /\ UNCHANGED notJobs

NextThreads ==
    \/ UploadDocument
    \/ \E j \in JobIds : ThreadStep(j)
    \/ DeleteJob
    \/ ResponseTaken

FairThreads ==
    /\ Init
    /\ [][NextThreads]_vars
    /\ WF_vars(ResponseTaken)
    /\ \A j \in JobIds : WF_vars(ThreadStep(j))

\* ------------------------------------------------------------------------
\* dashboard/views.py: start_exam, evaluate_short_answer,
\* store_evaluation_result
\* ------------------------------------------------------------------------
Callers == Users \cup {"anonymous"}
QaIds == JobIds \X (1..MaxItems)
QaExists(q) == q[1] \in JobIds /\ q[2] \in 1..Len(qas[q[1]])
QaOf(q) == qas[q[1]][q[2]]
QaOwner(q) == jobs[q[1]].user

\* The orders random.shuffle can leave the ids of a job's rows in.
Shuffles(j) ==
    LET n == Len(qas[j]) IN
    {order \in [1..n -> {<<j, i>> : i \in 1..n}] :
        \A a, b \in 1..n : order[a] = order[b] => a = b}

SessionsOf(user, job_id) ==
    {x \in SessionIds : /\ sessions[x].exists
                        /\ sessions[x].user = user
                        /\ sessions[x].processing_job = job_id}
\* The id of the next row: the first one not in use, MaxSessions + 1 when the
\* table is full.
FreeSession ==
    CHOOSE x \in 1..(MaxSessions + 1) :
        /\ x \in SessionIds => ~sessions[x].exists
        /\ \A y \in 1..(x - 1) : sessions[y].exists

Redirect(op, user, id, to) ==
    [Answered(op, user, id, 302, TRUE, "") EXCEPT !.status = to]

\* start_exam (lines 423-490); every refusal redirects to my_quizzes.
start_exam(user, job_id, order) ==
    LET op == "start_exam"
        x == FreeSession
    IN
    IF \/ GetObjectOr404(user, job_id) # "found"
       \/ jobs[job_id].status # "completed"
       \/ qas[job_id] = <<>>
    THEN /\ resp' = Redirect(op, user, job_id, "my_quizzes")
         /\ UNCHANGED sessions
    ELSE /\ x <= MaxSessions
         /\ order \in Shuffles(job_id)
         /\ sessions' = [sessions EXCEPT ![x] =
               [exists |-> TRUE, user |-> user, processing_job |-> job_id,
                status |-> "active", questions_order |-> order,
                current_question_index |-> 0,
                attempt_number |-> Cardinality(SessionsOf(user, job_id)) + 1,
                total_questions |-> Len(order), total_score |-> 0,
                allow_navigation |-> config.allow_question_navigation]]
         /\ resp' = [Redirect(op, user, job_id, "exam_session") EXCEPT !.sources = {user}]

StartExam ==
    /\ Idle
    /\ \E user \in Users, job_id \in JobIds :
          \E order \in Shuffles(job_id) : start_exam(user, job_id, order)
    /\ UNCHANGED <<jobs, qas, files, threads, started, nextId, evals, answers>>
    /\ UNCHANGED <<normVars, reqVars, sideVars, walkVars>>

\* update_or_create(exam_session=, question=, defaults=...)
UpdateOrCreate(rows, row) ==
    {r \in rows : r.exam_session # row.exam_session \/ r.question # row.question}
        \cup {row}
Evaluated(x, q) == \E r \in evals : r.exam_session = x /\ r.question = q

Evaluation(x, q, question_index, user_answer, score) ==
    [exam_session |-> x, question |-> q, question_index |-> question_index,
     user_answer |-> user_answer, score |-> score]
\* is_correct is the 60% threshold of max_score 10.
Answer(x, q, question_index, user_answer, score) ==
    [exam_session |-> x, question |-> q, question_index |-> question_index,
     user_answer |-> user_answer, is_correct |-> score * 10 >= 60,
     points_earned |-> score]

\* ExamSession.calculate_score (apps/dashboard/models.py): the points of the
\* session's answers.
RECURSIVE Points(_)
Points(rows) ==
    IF rows = {} THEN 0
    ELSE LET r == CHOOSE r \in rows : TRUE IN r.points_earned + Points(rows \ {r})
calculate_score(table, x, rows) ==
    [table EXCEPT ![x].total_score = Points({r \in rows : r.exam_session = x})]

EvalFailed == <<[cls |-> "Exception", code |-> 500, error |-> "Evaluation failed"]>>

\* evaluate_short_answer (lines 962-1087).  scored is what the webhook's
\* evaluation returned: success and a score.
evaluate_short_answer(user, x, q, user_answer, scored) ==
    LET op == "evaluate_short_answer"
        refuse(code, error) ==
            /\ resp' = Answered(op, user, x, code, FALSE, error)
            /\ UNCHANGED <<evals, answers>>
        owned == sessions[x].exists /\ sessions[x].user = user
        index == sessions[x].current_question_index
    IN
    IF user_answer = "" THEN refuse(400, "Missing required fields")
    ELSE IF ~owned THEN refuse(Caught(EvalFailed, "Http404").code, "Evaluation failed")
    ELSE IF sessions[x].status # "active" THEN refuse(400, "Exam session is not active")
    ELSE IF ~QaExists(q) THEN refuse(Caught(EvalFailed, "Http404").code, "Evaluation failed")
    ELSE IF QaOf(q).question_type # JStr("SHORT")
         THEN refuse(400, "Question is not a short answer type")
    ELSE IF ~scored.success THEN refuse(500, "Evaluation failed")
    ELSE /\ Evaluated(x, q) \/ Cardinality(evals) < MaxEvaluations
         /\ evals' = UpdateOrCreate(evals, Evaluation(x, q, index, user_answer, scored.score))
         /\ answers' = UpdateOrCreate(answers, Answer(x, q, index, user_answer, scored.score))
         /\ resp' = [Answered(op, user, x, 200, TRUE, "")
                        EXCEPT !.keys = {"success", "evaluation"},
                               !.sources = {sessions[x].user, QaOwner(q)}]

Scorings == {[success |-> FALSE, score |-> 0], [success |-> TRUE, score |-> 9]}

EvaluateShortAnswer ==
    /\ Idle
    /\ \E user \in Users, x \in SessionIds, q \in QaIds :
          \E r \in {[user_answer |-> "", scored |-> [success |-> TRUE, score |-> 9]]}
                      \cup {[user_answer |-> "mine", scored |-> o] : o \in Scorings} :
             evaluate_short_answer(user, x, q, r.user_answer, r.scored)
    /\ UNCHANGED <<jobs, qas, files, threads, started, nextId, sessions>>
    /\ UNCHANGED <<normVars, reqVars, sideVars, walkVars>>

\* What is posted to store_evaluation_result: the body as a list
\* [{output: {data: ...}}] or as a dict {exam_id, data: ...}, with or without
\* q_id and exam_id.
NoQa == <<0, 0>>
Posted(format, q, x) == [format |-> format, q_id |-> q, exam_id |-> x, score |-> 3]

StoreFailed ==
    <<[cls |-> "Exception", code |-> 500, error |-> "Failed to store evaluation"]>>

\* store_evaluation_result (lines 1090-1224): no login is asked for.
store_evaluation_result(caller, body) ==
    LET op == "store_evaluation_result"
        q == body.q_id
        x == body.exam_id
        refuse(code, error) ==
            /\ resp' = Answered(op, caller, x, code, FALSE, error)
            /\ UNCHANGED <<sessions, evals, answers>>
        found == {i \in 1..Len(sessions[x].questions_order) :
                     sessions[x].questions_order[i] = q}
        \* questions_order.index(q_id) counts from 0
        question_index == IF found = {} THEN 0
                          ELSE (CHOOSE i \in found : \A k \in found : i <= k) - 1
        stored == UpdateOrCreate(answers, Answer(x, q, question_index, "theirs", body.score))
    IN
    IF q = NoQa THEN refuse(400, "q_id is required")
    ELSE IF ~QaExists(q) THEN refuse(404, "Question not found")
    \* data.get('exam_id') on a list raises AttributeError
    ELSE IF body.format = "list"
         THEN refuse(Caught(StoreFailed, "AttributeError").code, "Failed to store evaluation")
    ELSE IF x = 0 THEN refuse(400, "exam_id is required")
    ELSE IF ~sessions[x].exists THEN refuse(404, "Exam session not found")
    ELSE /\ Evaluated(x, q) \/ Cardinality(evals) < MaxEvaluations
         /\ evals' = UpdateOrCreate(evals,
                        Evaluation(x, q, question_index, "theirs", body.score))
         /\ answers' = stored
         /\ sessions' = calculate_score(sessions, x, stored)
         /\ resp' = [Answered(op, caller, x, 200, TRUE, "")
                        EXCEPT !.keys = {"success", "evaluation_id", "score"},
                               !.sources = {sessions[x].user, QaOwner(q)}]

StoreEvaluationResult ==
    /\ Idle
    /\ \E caller \in Callers, format \in {"list", "dict"},
          q \in QaIds \cup {NoQa}, x \in SessionIds \cup {0} :
             store_evaluation_result(caller, Posted(format, q, x))
    /\ UNCHANGED <<jobs, qas, files, threads, started, nextId>>
    /\ UNCHANGED <<normVars, reqVars, sideVars, walkVars>>

\* A user uploads a document for short-answer questions and the webhook
\* answers with two of them.
CreateQuiz ==
    /\ Idle
    /\ \E user \in Users : process_document(user, UpPdf, "absent", "SHORT", RunOk)
    /\ UNCHANGED notJobs

\* ------------------------------------------------------------------------
\* Quizzes, exam sessions and evaluations of two users
\* ------------------------------------------------------------------------
NextOwners ==
    \/ CreateQuiz
    \/ StartExam
    \/ EvaluateShortAnswer
    \/ StoreEvaluationResult
    \/ GetJobResults
    \/ ListJobs
    \/ ResponseTaken

SpecOwners == Init /\ [][NextOwners]_vars

\* ------------------------------------------------------------------------
\* Properties of the normalization and the extraction
\* ------------------------------------------------------------------------
RawOfBody == ParseJson(nBody)

QuestionText(item) ==
    IF Has(item, "question") THEN Get(item, "question", JNull).s
    ELSE IF Has(item, "q") THEN Get(item, "q", JNull).s ELSE ""
AnswerText(item) ==
    IF Has(item, "answer") THEN Get(item, "answer", JNull).s
    ELSE IF Has(item, "a") THEN Get(item, "a", JNull).s ELSE ""
HasText(item) == QuestionText(item) # ""
ExpectedTexts(items) ==
    LET kept == SelectSeq(items, HasText) IN
    [i \in 1..Len(kept) |->
        [question |-> QuestionText(kept[i]), answer |-> AnswerText(kept[i])]]
TextsOf(pairs) ==
    [i \in 1..Len(pairs) |->
        [question |-> pairs[i].question.s, answer |-> pairs[i].answer.s]]
AllObjects(items) == \A i \in 1..Len(items) : IsDict(items[i])
AllKeyed(items) ==
    \A i \in 1..Len(items) : Has(items[i], "question") \/ Has(items[i], "q")

\* C5: called on {'questions': [...]}, {'qa_pairs': [...]},
\* {'results': {'questions': [...]}}, another key holding a list of dicts
\* that have 'question' or 'q', or {'output': {'data': {'questions': [...]}}},
\* _extract_qa_pairs returns, in input order, one pair for each item with a
\* non-empty question text and none for the others; a list with an item
\* that is no dict, or data that holds no list at all, gives the empty list.
C5_OnePairPerQuestion ==
    nStage = "direct" =>
        /\ (nShape \in ExtractorShapes \ {"misc"} /\ AllObjects(nItems)) =>
              TextsOf(nPairs) = ExpectedTexts(nItems)
        /\ (nShape = "misc" /\ AllObjects(nItems) /\ AllKeyed(nItems)) =>
              TextsOf(nPairs) = ExpectedTexts(nItems)
        /\ (nShape \in ExtractorShapes /\ ~AllObjects(nItems)) => nPairs = <<>>
        /\ nShape \in {"questions_null", "results_null", "scalar", "empty_list"} =>
              nPairs = <<>>

C5_Witness ==
    /\ nStage = "direct"
    /\ nShape = "qa_pairs"
    /\ nItems = <<ItemEmptyText, ItemShortKeys>>
    /\ TextsOf(nPairs) = <<[question |-> "Q2", answer |-> "A2"]>>

\* A bare list reaches the extractor as {'raw': [...]}, where only the
\* discovery loop can find it, and that loop looks at the first element.
BareListFound(items) ==
    \/ items = <<>>
    \/ ~IsDict(items[1])
    \/ Has(items[1], "question") \/ Has(items[1], "q")

\* C6 as claimed: whichever tolerated shape the same items come in, the
\* pairs after _make_request and _extract_qa_pairs are the same.
C6_AllShapesAgree ==
    (nStage = "extracted" /\ nShape \in ToleratedShapes /\ nFirst.run) =>
        nPairs = nFirst.pairs

\* C6 amended: the four wrapped shapes always agree; the bare list agrees
\* with them when its first element carries 'question' or 'q' (or is no
\* dict, or the list is empty) and yields no pair at all otherwise.
C6_WrappedShapesAgree ==
    (nStage = "extracted" /\ nShape \in ToleratedShapes /\ nFirst.run) =>
        /\ (nShape # "bare_list" /\ nFirst.shape # "bare_list") =>
              nPairs = nFirst.pairs
        /\ BareListFound(nItems) => nPairs = nFirst.pairs
        /\ (nShape = "bare_list" /\ ~BareListFound(nItems)) => nPairs = <<>>

C6_Witness ==
    /\ nStage = "extracted"
    /\ nShape = "bare_list"
    /\ nFirst.run /\ nFirst.shape = "list_output"
    /\ Len(nPairs) = MaxItems
    /\ nPairs = nFirst.pairs

\* ------------------------------------------------------------------------
\* Properties of the retry loop
\* ------------------------------------------------------------------------
Retryable == {"timeout", "connection", "exception"}
LastMet == rHist[Len(rHist)]
ReportedError(o) ==
    CASE o.kind = "timeout" -> "Request timeout"
      [] o.kind = "connection" -> "Connection error"
      [] o.kind = "exception" -> "str(e)"
      [] OTHER -> "API Error"

Terminal == {"completed", "failed"}
Settled(j) ==
    /\ threads[j].pc = "done"
    /\ jobs[j].exists => jobs[j].status \in Terminal

StatusWellFormed ==
    \A j \in JobIds :
        jobs[j].exists =>
            /\ jobs[j].status \in {"pending", "processing", "completed", "failed"}
            /\ jobs[j].status = "completed" => jobs[j].via = "mark_completed"
            /\ jobs[j].status = "failed" => jobs[j].via = "mark_failed"
TerminalStays ==
    \A j \in JobIds :
        (jobs[j].exists /\ jobs[j].status \in Terminal /\ jobs'[j].exists)
            => jobs'[j].status = jobs[j].status

\* C2: a job's status is pending, processing, completed or failed; completed
\* is written by mark_completed only and failed by mark_failed only; a row
\* that is completed or failed keeps its status in every later step.
C2_StatusTransitions == []StatusWellFormed /\ [][TerminalStays]_vars

\* A thread has completed its job.
C2_Witness ==
    \E j \in JobIds :
        /\ threads[j].pc = "done"
        /\ jobs[j].exists
        /\ jobs[j].status = "completed"
        /\ Len(qas[j]) = 2


\* ------------------------------------------------------------------------
\* Properties of the upload endpoint
\* ------------------------------------------------------------------------
Uploaded == resp.op = "api_process_document"

\* The three validations the endpoint documents, read off the request.
HasDisallowedExtension(up) ==
    /\ Len(up.name) >= 2
    /\ Lower(up.name[Len(up.name)]) \notin {"pdf", "jpg", "jpeg", "png"}
FailsValidation(up) ==
    \/ ~up.present
    \/ HasDisallowedExtension(up)
    \/ up.size > 10 * 1024 * 1024

\* When the endpoint answers success, the job exists and is still pending,
\* its file is stored, and one thread has been started for it and has not
\* run yet.
StartedOnSuccess ==
    /\ \A j \in JobIds : started[j] <= 1
    /\ (Uploaded /\ resp.success) =>
          /\ resp.job_id \in JobIds
          /\ jobs[resp.job_id].exists
          /\ jobs[resp.job_id].status = "pending"
          /\ jobs[resp.job_id].document_file
          /\ <<"upload", resp.job_id>> \in files
          /\ started[resp.job_id] = 1
          /\ threads[resp.job_id].pc = "start"

\* A request that fails validation is answered 400, and a request answered
\* 400 starts no thread and creates no job.
NothingOnRejection ==
    (Uploaded' /\ resp' # resp) =>
        /\ FailsValidation(resp'.upload) => resp'.code = 400
        /\ resp'.code = 400 =>
              /\ FailsValidation(resp'.upload)
              /\ started' = started
              /\ threads' = threads
              /\ jobs' = jobs

\* C3: api_process_document answers before the webhook is called: on success
\* the job exists with its file saved and exactly one thread started for its
\* id; a request rejected by validation (no file, disallowed extension, more
\* than 10MB) starts no thread.
C3_OneThreadPerUpload == []StartedOnSuccess /\ [][NothingOnRejection]_vars

\* A file of exactly 10MB has been accepted and its thread started.
C3_Witness ==
    /\ Uploaded
    /\ resp.success
    /\ resp.upload = UpLimit
    /\ started[resp.job_id] = 1

\* ------------------------------------------------------------------------
\* Properties of the job views
\* ------------------------------------------------------------------------
Asked(ops) == resp.op \in ops /\ resp.job_id \in JobIds
AskedJob == jobs[resp.job_id]

\* C8: get_job_results and download_results hand out a job's questions only
\* while it is completed and answer 400 'Job is not completed yet' otherwise;
\* get_job_status carries questions and qa_count only for a completed job and
\* error_message only for a failed one.
C8_ResultsOnlyWhenCompleted ==
    /\ (Asked({"get_job_results", "download_results"}) /\ Owns(resp.user, resp.job_id)) =>
          IF AskedJob.status = "completed"
          THEN /\ resp.code = 200
               /\ "questions" \in resp.keys
               /\ resp.questions = qas[resp.job_id]
          ELSE /\ resp.code = 400
               /\ resp.error = "Job is not completed yet"
               /\ "questions" \notin resp.keys
               /\ resp.questions = <<>>
    /\ (Asked({"get_job_status"}) /\ Owns(resp.user, resp.job_id)) =>
          /\ resp.code = 200
          /\ resp.status = AskedJob.status
          /\ "questions" \in resp.keys <=> AskedJob.status = "completed"
          /\ "qa_count" \in resp.keys <=> AskedJob.status = "completed"
          /\ "error_message" \in resp.keys <=> AskedJob.status = "failed"
          /\ resp.questions = IF AskedJob.status = "completed"
                              THEN qas[resp.job_id] ELSE <<>>

\* The results of a job whose thread has created one of its two rows are
\* refused.
C8_Witness ==
    /\ Asked({"get_job_results"})
    /\ Owns(resp.user, resp.job_id)
    /\ AskedJob.status = "processing"
    /\ Len(qas[resp.job_id]) = 1
    /\ resp.code = 400

JobViews == {"get_job_status", "get_job_results", "download_results", "delete_job"}

\* A request for a job the user does not own, or that does not exist, has
\* just been answered.
NotFoundServed ==
    /\ resp' # resp
    /\ resp'.op \in JobViews
    /\ ~Owns(resp'.user, resp'.job_id)

\* C9: such a request is answered 404, by delete_job with 'Quiz not found',
\* and changes no job, file or Q&A row.
C9_NotFoundIs404 ==
    [][NotFoundServed =>
          /\ resp'.code = 404
          /\ resp'.op = "delete_job" => resp'.error = "Quiz not found"
          /\ UNCHANGED <<jobs, qas, files>>]_vars

\* What the code does hold to: nothing is disclosed and nothing changed.
C9_NotFoundChangesNothing ==
    [][NotFoundServed =>
          /\ resp'.code \in {404, 500}
          /\ ~resp'.success
          /\ resp'.questions = <<>>
          /\ UNCHANGED <<jobs, qas, files>>]_vars


\* ------------------------------------------------------------------------
\* Properties of ownership
\* ------------------------------------------------------------------------
\* Everything a user owns: jobs with their Q&A rows, exam sessions, and the
\* evaluations and answers stored under those sessions.
View(u) ==
    [jobs |-> {<<j, jobs[j], qas[j]>> : j \in {k \in JobIds : Owns(u, k)}},
     sessions |-> {<<x, sessions[x]>> :
                      x \in {y \in SessionIds : sessions[y].exists /\ sessions[y].user = u}},
     evals |-> {r \in evals : sessions[r.exam_session].user = u},
     answers |-> {r \in answers : sessions[r.exam_session].user = u}]

\* C10: a request served for one caller draws its response from that
\* caller's rows only, and leaves what every other user owns as it was.
C10_NoCrossUserAccess ==
    [][(resp' # resp /\ resp'.op # "") =>
          /\ resp'.sources \subseteq {resp'.user}
          /\ \A u \in Users \ {resp'.user} : View(u)' = View(u)]_vars

\* ------------------------------------------------------------------------
\* Properties of deletion
\* ------------------------------------------------------------------------
\* Ids are handed out in order and never again, so a row below nextId that
\* is absent has been deleted.
Deleted(j) == j < nextId /\ ~jobs[j].exists

\* C11: a job that delete_job has removed stays absent, and so do its
\* QuestionAnswer rows, whatever its background thread does afterwards.
C11_DeletedStaysDeleted ==
    [][\A j \in JobIds :
          Deleted(j) => (~jobs'[j].exists /\ qas'[j] = <<>>)]_vars

\* ------------------------------------------------------------------------
\* dashboard/views.py and dashboard/api_views.py: the paths that create exam
\* and flashcard sessions
\* ------------------------------------------------------------------------
NewSession_Miscounted(user, job_id, order, attempt_number) ==
    [exists |-> TRUE, user |-> user, processing_job |-> job_id,
     status |-> "active", questions_order |-> order,
     current_question_index |-> 0, attempt_number |-> attempt_number,
     total_questions |-> Len(order) + 1, total_score |-> 0,
     allow_navigation |-> config.allow_question_navigation]

\* ExamSession.objects.create(...) as the API and the flashcard completion
\* page call it.
NewSession(user, job_id, order, attempt_number) ==
    [exists |-> TRUE, user |-> user, processing_job |-> job_id,
     status |-> "active", questions_order |-> order,
     current_question_index |-> 0, attempt_number |-> attempt_number,
     total_questions |-> Len(order), total_score |-> 0,
     allow_navigation |-> config.allow_question_navigation]

ApiFailed == <<[cls |-> "Exception", code |-> 500, error |-> "str(e)"]>>

\* api_views.py start_exam up to the count of the user's attempts (lines
\* 205-219): the job is the caller's, completed, and has questions.
api_start_exam_count(s, user, job_id, order) ==
    LET op == "api_start_exam"
        refuse(code, error) ==
            /\ resp' = Answered(op, user, job_id, code, FALSE, error)
            /\ UNCHANGED starting
    IN
    IF GetObjectOr404(user, job_id) # "found"
    THEN refuse(Caught(ApiFailed, "Http404").code, "str(e)")
    ELSE IF jobs[job_id].status # "completed" THEN refuse(400, "Job not completed")
    ELSE IF qas[job_id] = <<>> THEN refuse(400, "No questions found")
    ELSE /\ order \in Shuffles(job_id)
         /\ starting' = [starting EXCEPT ![s] =
               [op |-> op, user |-> user, job |-> job_id, order |-> order,
                user_attempts |-> Cardinality(SessionsOf(user, job_id))]]
         /\ resp' = resp

ApiStartExamCount ==
    /\ Idle
    /\ \E s \in Slots, user \in Users, job_id \in JobIds :
          /\ starting[s] = NoStart
          /\ s = 1 \/ starting[1] # NoStart
          /\ \E order \in Shuffles(job_id) :
                api_start_exam_count(s, user, job_id, order)
    /\ UNCHANGED <<jobs, qas, files, threads, started, nextId>>
    /\ UNCHANGED <<sessions, evals, answers, flashcards, elapsed, loaded>>
    /\ UNCHANGED <<normVars, reqVars, sideVars>>

\* api_views.py start_exam, lines 221-232: the row is created with the count
\* taken before; a job deleted meanwhile fails the foreign key.
api_start_exam_create(s) ==
    LET op == "api_start_exam"
        r == starting[s]
        x == FreeSession
    IN
    /\ starting' = [starting EXCEPT ![s] = NoStart]
    /\ IF ~jobs[r.job].exists
       THEN /\ resp' = Answered(op, r.user, r.job, Caught(ApiFailed, "IntegrityError").code,
                                FALSE, "str(e)")
            /\ UNCHANGED sessions
       ELSE /\ x <= MaxSessions
            /\ sessions' = [sessions EXCEPT ![x] =
                  NewSession(r.user, r.job, r.order, r.user_attempts + 1)]
            /\ resp' = [Answered(op, r.user, r.job, 200, TRUE, "")
                           EXCEPT !.keys = {"success", "session_id"}]

ApiStartExamCreate ==
    /\ Idle
    /\ \E s \in Slots : starting[s] # NoStart /\ api_start_exam_create(s)
    /\ UNCHANGED <<jobs, qas, files, threads, started, nextId>>
    /\ UNCHANGED <<evals, answers, flashcards, elapsed, loaded>>
    /\ UNCHANGED <<normVars, reqVars, sideVars>>

FreeFlash ==
    CHOOSE f \in 1..(MaxFlash + 1) :
        /\ f \in FlashIds => ~flashcards[f].exists
        /\ \A g \in 1..(f - 1) : flashcards[g].exists

\* start_flashcard (views.py lines 774-819, api_views.py lines 516-551).
start_flashcard(user, job_id, order) ==
    LET op == "start_flashcard"
        f == FreeFlash
    IN
    IF \/ GetObjectOr404(user, job_id) # "found"
       \/ jobs[job_id].status # "completed"
       \/ qas[job_id] = <<>>
    THEN /\ resp' = Redirect(op, user, job_id, "my_quizzes")
         /\ UNCHANGED flashcards
    ELSE /\ f <= MaxFlash
         /\ order \in Shuffles(job_id)
         /\ flashcards' = [flashcards EXCEPT ![f] =
               [exists |-> TRUE, user |-> user, processing_job |-> job_id,
                status |-> "active", cards_order |-> order,
                current_card_index |-> 0, total_cards |-> Len(order)]]
         /\ resp' = Redirect(op, user, job_id, "flashcard_session")

StartFlashcard ==
    /\ Idle
    /\ \E user \in Users, job_id \in JobIds :
          \E order \in Shuffles(job_id) : start_flashcard(user, job_id, order)
    /\ UNCHANGED <<jobs, qas, files, threads, started, nextId>>
    /\ UNCHANGED <<sessions, evals, answers, elapsed, starting, loaded>>
    /\ UNCHANGED <<normVars, reqVars, sideVars>>

FlashOwned(user, f) == flashcards[f].exists /\ flashcards[f].user = user

\* flashcard_session with POST (views.py lines 821-876): the card is recorded
\* and the index moves on; past the last card the session is completed.
flashcard_session(user, f) ==
    LET op == "flashcard_session"
        fs == flashcards[f]
        moved == fs.current_card_index + 1
    IN
    IF ~FlashOwned(user, f)
    THEN /\ resp' = Redirect(op, user, f, "my_quizzes")
         /\ UNCHANGED flashcards
    ELSE IF fs.status # "active"
    THEN /\ resp' = Redirect(op, user, f, "complete_flashcard")
         /\ UNCHANGED flashcards
    ELSE IF fs.current_card_index >= Len(fs.cards_order)
    THEN /\ flashcards' = [flashcards EXCEPT ![f].status = "completed"]
         /\ resp' = Redirect(op, user, f, "complete_flashcard")
    ELSE /\ flashcards' = [flashcards EXCEPT
               ![f].current_card_index = moved,
               ![f].status = IF moved >= Len(fs.cards_order) THEN "completed" ELSE @]
         /\ resp' = Redirect(op, user, f,
                       IF moved >= Len(fs.cards_order)
                       THEN "complete_flashcard" ELSE "flashcard_session")

FlashcardSession ==
    /\ Idle
    /\ \E user \in Users, f \in FlashIds : flashcard_session(user, f)
    /\ UNCHANGED <<jobs, qas, files, threads, started, nextId>>
    /\ UNCHANGED <<sessions, evals, answers, elapsed, starting, loaded>>
    /\ UNCHANGED <<normVars, reqVars, sideVars>>

\* complete_flashcard with POST action 'start_exam' (views.py lines 896-957).
complete_flashcard(user, f, order) ==
    LET op == "complete_flashcard"
        fs == flashcards[f]
        x == FreeSession
    IN
    IF ~FlashOwned(user, f)
    THEN /\ resp' = Redirect(op, user, f, "my_quizzes")
         /\ UNCHANGED sessions
    ELSE IF fs.status = "active"
    THEN /\ resp' = Redirect(op, user, f, "flashcard_session")
         /\ UNCHANGED sessions
    ELSE /\ x <= MaxSessions
         /\ order \in Shuffles(fs.processing_job)
         /\ sessions' = [sessions EXCEPT ![x] =
               NewSession(user, fs.processing_job, order, 1)]
         /\ resp' = Redirect(op, user, f, "exam_session")

CompleteFlashcard ==
    /\ Idle
    /\ \E user \in Users, f \in FlashIds :
          \E order \in Shuffles(IF flashcards[f].exists
                                THEN flashcards[f].processing_job ELSE 1) :
             complete_flashcard(user, f, order)
    /\ UNCHANGED <<jobs, qas, files, threads, started, nextId>>
    /\ UNCHANGED <<evals, answers, walkVars>>
    /\ UNCHANGED <<normVars, reqVars, sideVars>>

\* delete_job, with the rows that go with the job by cascade: its exam and
\* flashcard sessions and what was stored under them.
DeleteQuiz ==
    /\ Idle
    /\ \E user \in Users, id \in JobIds :
          LET gone == {x \in SessionIds :
                          sessions[x].exists /\ sessions[x].processing_job = id}
          IN
          /\ delete_job(user, id)
          /\ IF Owns(user, id)
             THEN /\ sessions' = [x \in SessionIds |->
                                     IF x \in gone THEN NoSession ELSE sessions[x]]
                  /\ flashcards' = [f \in FlashIds |->
                        IF flashcards[f].exists /\ flashcards[f].processing_job = id
                        THEN NoFlash ELSE flashcards[f]]
                  /\ evals' = {r \in evals : r.exam_session \notin gone}
                  /\ answers' = {r \in answers : r.exam_session \notin gone}
                  /\ elapsed' = [x \in SessionIds |-> IF x \in gone THEN FALSE ELSE elapsed[x]]
             ELSE UNCHANGED <<sessions, flashcards, evals, answers, elapsed>>
    /\ UNCHANGED <<threads, started, nextId, starting, loaded>>
    /\ UNCHANGED <<normVars, reqVars, sideVars>>

\* A quiz whose processing fails: the job is left failed, without questions.
CreateFailedQuiz ==
    /\ Idle
    /\ \E user \in Users : process_document(user, UpPdf, "absent", "SHORT", RunHttpError)
    /\ UNCHANGED notJobs

\* ------------------------------------------------------------------------
\* Quizzes and every path that creates a session for them
\* ------------------------------------------------------------------------
NextSessions ==
    \/ CreateQuiz
    \/ CreateFailedQuiz
    \/ StartExam
    \/ ApiStartExamCount
    \/ ApiStartExamCreate
    \/ StartFlashcard
    \/ FlashcardSession
    \/ CompleteFlashcard
    \/ DeleteQuiz
    \/ ResponseTaken

SpecSessions == Init /\ [][NextSessions]_vars

\* ------------------------------------------------------------------------
\* Properties of session creation
\* ------------------------------------------------------------------------
\* The job a new session row names is, at the moment of creation, owned by
\* the row's user, completed and not empty, and the row's order is a
\* permutation of the ids of that job's QuestionAnswer rows.
MadeFor(user, job_id, order, total) ==
    /\ job_id \in JobIds
    /\ Owns(user, job_id)
    /\ jobs[job_id].status = "completed"
    /\ qas[job_id] # <<>>
    /\ order \in Shuffles(job_id)
    /\ total = Len(order)

SessionCreatedWell(x) ==
    (~sessions[x].exists /\ sessions'[x].exists) =>
        /\ MadeFor(sessions'[x].user, sessions'[x].processing_job,
                   sessions'[x].questions_order, sessions'[x].total_questions)
        /\ resp'.user = sessions'[x].user

SessionOrderKept(x) ==
    (sessions[x].exists /\ sessions'[x].exists) =>
        /\ sessions'[x].questions_order = sessions[x].questions_order
        /\ sessions'[x].total_questions = sessions[x].total_questions
        /\ sessions'[x].processing_job = sessions[x].processing_job
        /\ sessions'[x].user = sessions[x].user

FlashCreatedWell(f) ==
    (~flashcards[f].exists /\ flashcards'[f].exists) =>
        /\ MadeFor(flashcards'[f].user, flashcards'[f].processing_job,
                   flashcards'[f].cards_order, flashcards'[f].total_cards)
        /\ resp'.user = flashcards'[f].user

FlashOrderKept(f) ==
    (flashcards[f].exists /\ flashcards'[f].exists) =>
        /\ flashcards'[f].cards_order = flashcards[f].cards_order
        /\ flashcards'[f].total_cards = flashcards[f].total_cards
        /\ flashcards'[f].processing_job = flashcards[f].processing_job
        /\ flashcards'[f].user = flashcards[f].user

\* C12: every ExamSession and FlashcardSession is created for a completed
\* job of the requesting user that has questions, its order is a permutation
\* of exactly that job's QuestionAnswer ids, its total is the order's length,
\* and the order never changes afterwards - on every creation path.
C12_SessionsMadeForCompletedJobs ==
    [][/\ \A x \in SessionIds : SessionCreatedWell(x) /\ SessionOrderKept(x)
       /\ \A f \in FlashIds : FlashCreatedWell(f) /\ FlashOrderKept(f)]_vars

\* An exam session started from the flashcard completion page stands beside
\* the completed flashcard session of the same job.
C12_Witness ==
    /\ resp.op = "complete_flashcard"
    /\ resp.status = "exam_session"
    /\ \E x \in SessionIds, f \in FlashIds :
          /\ sessions[x].exists
          /\ flashcards[f].status = "completed"
          /\ sessions[x].processing_job = flashcards[f].processing_job
          /\ Len(sessions[x].questions_order) = 2

Distinct(x, y) ==
    (/\ x # y
     /\ sessions[x].exists /\ sessions[y].exists
     /\ sessions[x].user = sessions[y].user
     /\ sessions[x].processing_job = sessions[y].processing_job)
        => sessions[x].attempt_number # sessions[y].attempt_number

\* C18: for each (user, job) no two exam sessions carry the same
\* attempt_number, whichever path created them.
C18_AttemptNumbersDiffer == \A x, y \in SessionIds : Distinct(x, y)

\* ------------------------------------------------------------------------
\* dashboard/views.py exam_session and submit_exam, dashboard/api_views.py
\* answer_question and submit_exam
\* ------------------------------------------------------------------------
SessionOwned(user, x) == sessions[x].exists /\ sessions[x].user = user

\* The session scored and closed: status, calculate_score over the answers
\* stored, save.
Closed(es, x, status, rows) ==
    [es EXCEPT !.status = status,
               !.total_score = Points({r \in rows : r.exam_session = x})]

Navigate_Unbounded(es, action, allow_navigation) ==
    IF action = "next"
    THEN [es EXCEPT !.current_question_index = @ + 1]
    ELSE IF action = "previous" /\ allow_navigation
    THEN [es EXCEPT !.current_question_index = @ - 1]
    ELSE es

\* The navigation of both endpoints (views.py lines 583-589, api_views.py
\* lines 366-369); 'submit' is handled by the caller.
Navigate(es, action, allow_navigation) ==
    LET idx == es.current_question_index IN
    IF action = "next" /\ idx < Len(es.questions_order) - 1
    THEN [es EXCEPT !.current_question_index = idx + 1]
    ELSE IF action = "previous" /\ idx > 0 /\ allow_navigation
    THEN [es EXCEPT !.current_question_index = idx - 1]
    ELSE es

\* The answer row both endpoints store for the current question: a row that
\* is there keeps its points, a new one has none.  For a SHORT question
\* is_correct is False until an evaluation arrives.
Recorded(rows, x, q, idx, user_answer) ==
    LET old == {r \in rows : r.exam_session = x /\ r.question = q} IN
    IF old = {}
    THEN rows \cup {[exam_session |-> x, question |-> q, question_index |-> idx,
                     user_answer |-> user_answer, is_correct |-> FALSE,
                     points_earned |-> 0]}
    ELSE (rows \ old) \cup {[r EXCEPT !.user_answer = user_answer,
                                      !.is_correct = FALSE] : r \in old}

ExamOps == {"exam_session", "answer_question"}

\* send_exam_completion_webhook(request.user, exam_session), counted.
Webhook(sent_for, x) == [sent_for EXCEPT ![x] = @ + 1]

\* Both endpoints up to the point where the session row is in hand.  The
\* view closes a session whose time has run out (lines 507-519) or whose
\* index is past the end (lines 526-537); the API checks the status only.
exam_load(s, op, user, x) ==
    LET es == sessions[x]
        refuse(code, error, to) ==
            /\ resp' = [Answered(op, user, x, code, FALSE, error) EXCEPT !.status = to]
            /\ UNCHANGED <<sessions, loaded, hooks>>
        close(status) ==
            /\ sessions' = [sessions EXCEPT ![x] = Closed(es, x, status, answers)]
            /\ hooks' = IF status = "completed" THEN Webhook(hooks, x) ELSE hooks
            /\ resp' = Redirect(op, user, x, "exam_result")
            /\ UNCHANGED loaded
    IN
    IF ~SessionOwned(user, x)
    THEN IF op = "exam_session"
         THEN refuse(302, "Error in exam session", "my_quizzes")
         ELSE refuse(Caught(ApiFailed, "Http404").code, "str(e)", "")
    ELSE IF es.status # "active"
    THEN IF op = "exam_session"
         THEN refuse(302, "", "exam_result")
         ELSE refuse(400, "Exam not active", "")
    ELSE IF op = "exam_session" /\ elapsed[x] THEN close("expired")
    ELSE IF op = "exam_session" /\ es.current_question_index >= Len(es.questions_order)
    THEN close("completed")
    ELSE /\ loaded' = [loaded EXCEPT ![s] = [op |-> op, x |-> x, es |-> es]]
         /\ UNCHANGED <<sessions, resp, hooks>>

ExamLoad ==
    /\ Idle
    /\ \E s \in Slots, op \in ExamOps, user \in Users, x \in SessionIds :
          /\ loaded[s] = NoLoad
          /\ s = 1 \/ loaded[1] # NoLoad
          /\ exam_load(s, op, user, x)
    /\ \A x \in SessionIds : hooks'[x] <= MaxHooks
    /\ UNCHANGED <<jobs, qas, files, threads, started, nextId>>
    /\ UNCHANGED <<evals, answers, flashcards, elapsed, starting>>
    /\ UNCHANGED <<normVars, reqVars, boardVars, sent, diskVars, config>>

\* Both endpoints from the row in hand on (views.py lines 539-596,
\* api_views.py lines 344-377): the question is looked up, the answer stored,
\* the index moved or the session closed, and the row saved as a whole.  The
\* view saves only when it has moved or closed; the API saves always.  Both
\* send the completion webhook on 'submit' (views.py line 597, api_views.py
\* line 375).
exam_save(s, action, user_answer) ==
    LET op == loaded[s].op
        x == loaded[s].x
        es == loaded[s].es
        idx == es.current_question_index
        q == es.questions_order[idx + 1]
        stored == IF user_answer = "" THEN answers
                  ELSE Recorded(answers, x, q, idx, user_answer)
        after == IF action = "submit"
                 THEN Closed(es, x, "completed", stored)
                 ELSE Navigate(es, action, es.allow_navigation)
    IN
    /\ loaded' = [loaded EXCEPT ![s] = NoLoad]
    /\ IF idx + 1 \notin DOMAIN es.questions_order
       THEN /\ resp' = Answered(op, es.user, x, Caught(ApiFailed, "IndexError").code,
                                FALSE, "str(e)")
            /\ UNCHANGED <<sessions, answers, hooks>>
       ELSE /\ answers' = stored
            /\ hooks' = IF action = "submit" THEN Webhook(hooks, x) ELSE hooks
            /\ sessions' = IF op = "exam_session" /\ after = es
                           THEN sessions
                           ELSE [sessions EXCEPT ![x] = after]
            /\ resp' = IF op = "exam_session"
                       THEN Redirect(op, es.user, x,
                               IF action = "submit" THEN "exam_result" ELSE "exam_session")
                       ELSE [Answered(op, es.user, x, 200, TRUE, "")
                                EXCEPT !.keys = {"success", "current_index", "completed"}]

ExamSave ==
    /\ Idle
    /\ \E s \in Slots, action \in {"next", "previous", "submit"},
          user_answer \in {"", "mine"} :
          /\ loaded[s] # NoLoad
          /\ exam_save(s, action, user_answer)
    /\ \A x \in SessionIds : hooks'[x] <= MaxHooks
    /\ UNCHANGED <<jobs, qas, files, threads, started, nextId>>
    /\ UNCHANGED <<evals, flashcards, elapsed, starting>>
    /\ UNCHANGED <<normVars, reqVars, boardVars, sent, diskVars, config>>

\* submit_exam (views.py lines 634-657, api_views.py lines 399-418).
submit_exam(user, x) ==
    LET op == "submit_exam" IN
    IF ~SessionOwned(user, x)
    THEN /\ resp' = Answered(op, user, x, Caught(ApiFailed, "Http404").code, FALSE, "str(e)")
         /\ UNCHANGED <<sessions, hooks>>
    ELSE /\ sessions' = IF sessions[x].status = "active"
                        THEN [sessions EXCEPT ![x] = Closed(@, x, "completed", answers)]
                        ELSE sessions
         /\ hooks' = IF sessions[x].status = "active" THEN Webhook(hooks, x) ELSE hooks
         /\ resp' = Redirect(op, user, x, "exam_result")

SubmitExam ==
    /\ Idle
    /\ \E user \in Users, x \in SessionIds : submit_exam(user, x)
    /\ \A x \in SessionIds : hooks'[x] <= MaxHooks
    /\ UNCHANGED <<jobs, qas, files, threads, started, nextId>>
    /\ UNCHANGED <<evals, answers, walkVars>>
    /\ UNCHANGED <<normVars, reqVars, boardVars, sent, diskVars, config>>

\* Time passes: the limit of an active session runs out.
TimeLimitElapses ==
    /\ \E x \in SessionIds :
          /\ sessions[x].exists
          /\ sessions[x].status = "active"
          /\ ~elapsed[x]
          /\ elapsed' = [elapsed EXCEPT ![x] = TRUE]
    /\ UNCHANGED <<normVars, reqVars, sideVars, jobVars>>
    /\ UNCHANGED <<sessions, evals, answers, flashcards, starting, loaded>>

\* One quiz, made by either user, and one exam session of it.
CreateOneQuiz == nextId = 1 /\ CreateQuiz
StartOneExam == (\A x \in SessionIds : ~sessions[x].exists) /\ StartExam

\* ------------------------------------------------------------------------
\* Exam sessions of one quiz, walked, evaluated and closed
\* ------------------------------------------------------------------------
NextExam ==
    \/ CreateOneQuiz
    \/ StartOneExam
    \/ ExamLoad
    \/ ExamSave
    \/ SubmitExam
    \/ TimeLimitElapses
    \/ ResponseTaken

\* Navigation back is allowed by the configuration, or is not.
InitExam ==
    /\ JobsAtRest /\ NormAtRest /\ ReqAtRest /\ ExamAtRest
    /\ lbShape = "falling" /\ lbCount = 0 /\ lb = NoBoard
    /\ sent = <<>>
    /\ disk = <<>> /\ now = 0 /\ saved = [j \in JobIds |-> NoSave]
    /\ config \in {[allow_question_navigation |-> b] : b \in BOOLEAN}
    /\ hooks = [x \in SessionIds |-> 0]

SpecExam == InitExam /\ [][NextExam]_vars

\* ------------------------------------------------------------------------
\* An exam session answered, evaluated from outside, and closed
\* ------------------------------------------------------------------------
NextClosed ==
    \/ CreateOneQuiz
    \/ StartOneExam
    \/ SubmitExam
    \/ EvaluateShortAnswer
    \/ StoreEvaluationResult
    \/ TimeLimitElapses
    \/ ResponseTaken

SpecClosed == Init /\ [][NextClosed]_vars

\* ------------------------------------------------------------------------
\* Properties of the exam session walk
\* ------------------------------------------------------------------------
AnswersOf(x) == {r \in answers : r.exam_session = x}
EvaluationsOf(x) == {r \in evals : r.exam_session = x}

\* C13: once a session's time limit has elapsed, no answer or evaluation is
\* recorded for it and its question index does not move, through any
\* endpoint.
C13_NothingRecordedAfterTimeLimit ==
    [][\A x \in SessionIds :
          (sessions[x].exists /\ elapsed[x]) =>
              /\ AnswersOf(x)' = AnswersOf(x)
              /\ EvaluationsOf(x)' = EvaluationsOf(x)
              /\ sessions'[x].current_question_index
                    = sessions[x].current_question_index]_vars

\* What the exam_session view does hold to: a request it takes up after the
\* time limit has elapsed closes the session as expired and records nothing.
C13_ViewClosesExpired ==
    [][\A x \in SessionIds :
          (/\ resp' # resp
           /\ resp'.op = "exam_session"
           /\ resp'.job_id = x
           /\ sessions[x].exists /\ sessions[x].status = "active" /\ elapsed[x]
           /\ \A s \in Slots : loaded[s] = NoLoad
           /\ sessions[x].user = resp'.user) =>
              /\ sessions'[x].status = "expired"
              /\ answers' = answers
              /\ sessions'[x].current_question_index = sessions[x].current_question_index]_vars

\* C14: after a session has left 'active', its answers, its evaluations and
\* its score never change.
C14_ClosedSessionFrozen ==
    [][\A x \in SessionIds :
          (sessions[x].exists /\ sessions[x].status \in {"completed", "expired"}) =>
              /\ AnswersOf(x)' = AnswersOf(x)
              /\ EvaluationsOf(x)' = EvaluationsOf(x)
              /\ sessions'[x].total_score = sessions[x].total_score]_vars

\* What evaluate_short_answer does hold to: it refuses a closed session.
C14_EvaluateRefusesClosed ==
    [][(/\ resp' # resp
        /\ resp'.op = "evaluate_short_answer"
        /\ resp'.job_id \in SessionIds
        /\ sessions[resp'.job_id].exists
        /\ sessions[resp'.job_id].user = resp'.user
        /\ sessions[resp'.job_id].status # "active"
        /\ resp'.error # "Missing required fields") =>
           /\ resp'.code = 400
           /\ UNCHANGED <<sessions, evals, answers>>]_vars

InRange(es) ==
    /\ 0 <= es.current_question_index
    /\ es.current_question_index < Len(es.questions_order)

\* C20: the question index of every exam session is within its order, in the
\* table and in the row every request under way holds, so the lookup
\* questions_order[current_question_index] does not fail.
C20_IndexWithinOrder ==
    /\ \A x \in SessionIds : sessions[x].exists => InRange(sessions[x])
    /\ \A s \in Slots : loaded[s] # NoLoad => InRange(loaded[s].es)

\* Two requests hold the same session, which stands on its last question.
C20_Witness ==
    /\ loaded[1] # NoLoad
    /\ loaded[2] # NoLoad
    /\ loaded[1].x = loaded[2].x
    /\ loaded[1].op # loaded[2].op
    /\ sessions[loaded[1].x].current_question_index
          = Len(sessions[loaded[1].x].questions_order) - 1
    /\ loaded[2].es.current_question_index = 0

\* ------------------------------------------------------------------------
\* dashboard/views.py: leaderboard, and dashboard/api_views.py: leaderboard
\* ------------------------------------------------------------------------
\* The slice both take: the first 50.
TopUsers == 50
MaxBoard == 51       \* users with a completed exam

\* User pks.  The users 1..lbCount have completed exams; the last pk never has.
BoardUsers == 1..(MaxBoard + 1)

\* The aggregates of the completed exams of user u: total_exams (Count),
\* total_score (Sum) and avg_percentage (Avg, in hundredths of a percent).
\* "falling": the earlier the user, the higher the score; "rising": the
\* later, the higher; "ties": scores, averages and counts that repeat.
BoardShapes == {"falling", "rising", "ties"}
Annotate(shape, count, u) ==
    IF u > count
    THEN [pk |-> u, total_exams |-> 0, total_score |-> 0, avg_percentage |-> 0]
    ELSE IF shape = "falling"
    THEN [pk |-> u, total_exams |-> 1, total_score |-> MaxBoard + 1 - u,
          avg_percentage |-> 5000]
    ELSE IF shape = "rising"
    THEN [pk |-> u, total_exams |-> 2, total_score |-> u, avg_percentage |-> 9125]
    ELSE [pk |-> u, total_exams |-> 1 + (u % 2), total_score |-> u % 3,
          avg_percentage |-> 2555 * (u % 4)]

\* order_by('-total_score', '-avg_percentage', '-total_exams'); rows equal in
\* all three come in pk order.
Before(a, b) ==
    \/ a.total_score > b.total_score
    \/ a.total_score = b.total_score /\ a.avg_percentage > b.avg_percentage
    \/ /\ a.total_score = b.total_score
       /\ a.avg_percentage = b.avg_percentage
       /\ \/ a.total_exams > b.total_exams
          \/ a.total_exams = b.total_exams /\ a.pk < b.pk

\* User.objects.annotate(...).filter(total_exams__gt=0).order_by(...)
\* (views.py lines 330-337, api_views.py lines 142-149 without the slice)
UserStats(shape, count) ==
    LET rows == {Annotate(shape, count, u) : u \in BoardUsers}
        kept == {a \in rows : a.total_exams > 0}
        placed == {<<1 + Cardinality({b \in kept : Before(b, a)}), a>> : a \in kept}
    IN [r \in 1..Cardinality(kept) |-> (CHOOSE p \in placed : p[1] = r)[2]]

\* round(x, 1) of a number of hundredths, in tenths.
Round1(x) == (x + 5) \div 10

\* The part of a leaderboard row the two have in common.
BoardRow(rank, u, user) ==
    [rank |-> rank, user |-> u.pk, total_score |-> u.total_score,
     total_exams |-> u.total_exams, avg_percentage |-> Round1(u.avg_percentage),
     is_current_user |-> u.pk = user]

FirstRows(rows, n) == SubSeq(rows, 1, IF Len(rows) < n THEN Len(rows) ELSE n)

\* views.py lines 339-413: every user is ranked, the requesting user is
\* looked up among all of them, and the template gets the first 50.
view_leaderboard(user_stats, user) ==
    LET leaderboard_data ==
            [rank \in 1..Len(user_stats) |-> BoardRow(rank, user_stats[rank], user)]
        mine == {rank \in 1..Len(user_stats) : leaderboard_data[rank].is_current_user}
    IN [op |-> "leaderboard", user |-> user,
        leaderboard |-> FirstRows(leaderboard_data, TopUsers),
        current_user_rank |-> IF mine = {} THEN 0 ELSE CHOOSE rank \in mine : TRUE]

\* api_views.py lines 142-173: the queryset is sliced to 50 before it is
\* enumerated, and the requesting user is looked up while enumerating.
api_leaderboard(user_stats, user) ==
    LET sliced == FirstRows(user_stats, TopUsers)
        items == [rank \in 1..Len(sliced) |-> BoardRow(rank, sliced[rank], user)]
        mine == {rank \in 1..Len(sliced) : items[rank].is_current_user}
    IN [op |-> "api_leaderboard", user |-> user,
        leaderboard |-> items,
        current_user_rank |-> IF mine = {} THEN 0 ELSE CHOOSE rank \in mine : TRUE]

\* One more user completes an exam.
BoardUserCompletes ==
    /\ lb = NoBoard
    /\ lbCount < MaxBoard
    /\ lbCount' = lbCount + 1
    /\ lb' = lb
    /\ UNCHANGED <<lbShape, sent, diskVars, normVars, reqVars, jobVars, examVars, config, hooks>>

\* The response is with the client; the next request can be made.
BoardResponseTaken ==
    /\ lb # NoBoard
    /\ lb' = NoBoard
    /\ UNCHANGED <<lbShape, lbCount, sent, diskVars, normVars, reqVars, jobVars, examVars, config, hooks>>

ViewLeaderboard ==
    /\ lb = NoBoard
    /\ LET user_stats == UserStats(lbShape, lbCount) IN
       \E user \in BoardUsers : lb' = view_leaderboard(user_stats, user)
    /\ UNCHANGED <<lbShape, lbCount, sent, diskVars, normVars, reqVars, jobVars, examVars, config, hooks>>

ApiLeaderboard ==
    /\ lb = NoBoard
    /\ LET user_stats == UserStats(lbShape, lbCount) IN
       \E user \in BoardUsers : lb' = api_leaderboard(user_stats, user)
    /\ UNCHANGED <<lbShape, lbCount, sent, diskVars, normVars, reqVars, jobVars, examVars, config, hooks>>

InitBoard ==
    /\ JobsAtRest /\ NormAtRest /\ ReqAtRest /\ ExamAtRest
    /\ lbShape \in BoardShapes
    /\ lbCount = 0
    /\ lb = NoBoard
    /\ sent = <<>>
    /\ disk = <<>>
    /\ now = 0
    /\ saved = [j \in JobIds |-> NoSave]
    /\ config = DefaultConfig
    /\ hooks = [x \in SessionIds |-> 0]

NextBoard ==
    \/ BoardUserCompletes
    \/ ViewLeaderboard
    \/ ApiLeaderboard
    \/ BoardResponseTaken

SpecBoard == InitBoard /\ [][NextBoard]_vars

\* ------------------------------------------------------------------------
\* Properties of the leaderboard
\* ------------------------------------------------------------------------
\* What the template view gives the user of the last response, on this data.
ViewOfLast == view_leaderboard(UserStats(lbShape, lbCount), lb.user)

\* C15: the JSON leaderboard endpoint returns the same ranking and the same
\* current_user_rank as the template view, whatever the requesting user's
\* place, below the first 50 included.
C15_ApiMatchesView ==
    lb.op = "api_leaderboard" =>
        /\ lb.leaderboard = ViewOfLast.leaderboard
        /\ lb.current_user_rank = ViewOfLast.current_user_rank

\* The ranking itself is the same in both.
C15_SameRanking ==
    lb.op = "api_leaderboard" => lb.leaderboard = ViewOfLast.leaderboard

\* So is current_user_rank for a user the ranking shows, and for a user
\* without a completed exam.
C15_SameRankWithinTop ==
    (/\ lb.op = "api_leaderboard"
     /\ \/ \E r \in 1..Len(lb.leaderboard) : lb.leaderboard[r].user = lb.user
        \/ lb.user > lbCount)
        => lb.current_user_rank = ViewOfLast.current_user_rank

\* A requesting user below the first 50 has no rank in the API's response.
C15_NoRankBelowTop ==
    (lb.op = "api_leaderboard" /\ ViewOfLast.current_user_rank > TopUsers)
        => lb.current_user_rank = 0

\* ------------------------------------------------------------------------
\* processor.py: _save_qa_pairs, and process_with_job from the output file on
\* ------------------------------------------------------------------------
MaxNow == 1          \* seconds that pass in one behaviour

\* Paths and file names are sequences of pieces: words, and the separators
\* "/", "." and "_" on their own.
IdText(id) == <<"1", "2", "3", "4">>[id]

DocumentPath_Unnumbered(id, name) ==
    <<"brain", "/", "uploads", "/", name[1], ".", name[2]>>

\* dashboard/views.py lines 257-261: the path of the stored upload starts
\* with the job's id.
DocumentPath(id, name) ==
    <<"brain", "/", "uploads", "/", IdText(id), "_", name[1], ".", name[2]>>

\* processor.py line 220: alphanumerics, ' ', '-' and '_' are kept.
KeptInName(c) == c \notin {"/", "."}
safe_source_name(source_name) == SelectSeq(source_name, KeptInName)

\* json.dump and json.load of dicts, lists and strings: the text holds the
\* value, and loading a file that is no JSON text raises.
JsonDump(v) == [json |-> TRUE, v |-> v]
JsonLoad(text) == text.v

WriteFile(d, path, text) ==
    [p \in (DOMAIN d) \cup {path} |-> IF p = path THEN text ELSE d[p]]

\* _save_qa_pairs (lines 197-236) at second t: the directory afterwards and
\* the path returned.
save_qa_pairs(d, qa_pairs, source_name, t) ==
    LET output_data ==
            [source |-> source_name, total_questions |-> Len(qa_pairs),
             questions |-> qa_pairs]
        output_path == <<safe_source_name(source_name), "_qa_", t, ".json">>
    IN [disk |-> WriteFile(d, output_path, JsonDump(output_data)),
        output_path |-> output_path]

\* What the webhook does for the documents of this part.
RunOne == <<Out200("questions", <<ItemQA>>)>>
DiskRuns == {RunOk, RunOne, RunEmpty}
DiskOutcome == [run \in DiskRuns |-> ProcessorProcessDocument(TRUE, run)]

\* Lines 256-279: the document branch up to the return of process_document,
\* which ends with _save_qa_pairs.
ThreadSaveOutput(j, run) ==
    LET job == threads[j].job
        out == IF job.document_type = "text"
               THEN Raised("No text content available for processing")
               ELSE IF ~job.document_file
               THEN Raised("No document file available for processing")
               ELSE IF <<"upload", j>> \notin files
               THEN Raised("API processing failed")
               ELSE DiskOutcome[run]
        written == save_qa_pairs(disk, out.pairs, DocumentPath(j, UpPdf.name), now)
    IN
    /\ At(j, "process")
    /\ IF out.ok
       THEN /\ disk' = written.disk
            /\ saved' = [saved EXCEPT ![j] =
                            [NoSave EXCEPT !.called = TRUE, !.qa_pairs = out.pairs,
                                           !.output_path = written.output_path]]
            /\ files' = files \cup {<<"output", j>>}
            /\ threads' = Goto(j, "load")
       ELSE /\ UNCHANGED <<disk, saved, files>>
            /\ threads' = Fail(j, "failed", out.err)
    /\ UNCHANGED <<jobs, qas, started, nextId, resp>>
    /\ UNCHANGED <<normVars, reqVars, examVars, boardVars, sent, now, config, hooks>>

\* Lines 282-287: the output file is opened and loaded.
ThreadLoadOutput(j) ==
    LET output_file == saved[j].output_path IN
    /\ At(j, "load")
    /\ threads' =
          IF output_file \notin DOMAIN disk
          THEN Fail(j, "failed", "FileNotFoundError")
          ELSE LET qa_data == JsonLoad(disk[output_file]) IN
               [threads EXCEPT ![j].pc = "create",
                               ![j].pending = RowsOfItems(qa_data.questions)]
    /\ UNCHANGED <<jobs, qas, files, started, nextId, resp>>
    /\ UNCHANGED notJobs

\* Lines 288-298, one pass, with the count.
ThreadCreateCounted(j) ==
    /\ At(j, "create")
    /\ threads[j].pending # <<>>
    /\ IF jobs[j].exists
       THEN /\ qas' = [qas EXCEPT ![j] = Append(@, Head(threads[j].pending))]
            /\ threads' = [threads EXCEPT ![j].pending = Tail(@)]
            /\ saved' = [saved EXCEPT ![j].qa_count = @ + 1]
       ELSE /\ qas' = qas
            /\ threads' = Fail(j, "failed", "IntegrityError")
            /\ saved' = saved
    /\ UNCHANGED <<jobs, files, started, nextId, resp>>
    /\ UNCHANGED <<normVars, reqVars, examVars, boardVars, sent, disk, now, config, hooks>>

\* Lines 301-313: mark_completed, and the result with qa_count returned.
ThreadReturn(j) ==
    LET job == mark_completed([threads[j].job EXCEPT !.output_file = TRUE]) IN
    /\ At(j, "create")
    /\ threads[j].pending = <<>>
    /\ jobs' = Save(jobs, j, job)
    /\ threads' = [threads EXCEPT ![j] = Ended]
    /\ saved' = [saved EXCEPT ![j].returned = TRUE]
    /\ UNCHANGED <<qas, files, started, nextId, resp>>
    /\ UNCHANGED <<normVars, reqVars, examVars, boardVars, sent, disk, now, config, hooks>>

\* A second passes.
Tick ==
    /\ now < MaxNow
    /\ now' = now + 1
    /\ UNCHANGED <<normVars, reqVars, jobVars, examVars, boardVars, sent, disk, saved, config, hooks>>

ThreadStepOnDisk(j) ==
    \/ \E raises \in BOOLEAN : ThreadStart(j, raises)
    \/ ThreadSetProcessing(j)
    \/ \E run \in DiskRuns : ThreadSaveOutput(j, run)
    \/ ThreadLoadOutput(j)
    \/ ThreadCreateCounted(j)
    \/ ThreadReturn(j)
    \/ ThreadHandleError(j)
    \/ ThreadCriticalError(j)

NextDisk ==
    \/ UploadDocument
    \/ \E j \in JobIds : ThreadStepOnDisk(j)
    \/ Tick
    \/ ResponseTaken

SpecDisk == Init /\ [][NextDisk]_vars

\* ------------------------------------------------------------------------
\* Properties of the output file
\* ------------------------------------------------------------------------
\* The output file of job j as it is now on disk.
OutputOf(j) == JsonLoad(disk[saved[j].output_path])

C16_FileHoldsPairs ==
    \A j \in JobIds :
        saved[j].called =>
            /\ saved[j].output_path \in DOMAIN disk
            /\ OutputOf(j).questions = saved[j].qa_pairs
            /\ OutputOf(j).total_questions = Len(saved[j].qa_pairs)

C16_OneRowPerPair ==
    \A j \in JobIds :
        saved[j].returned =>
            /\ qas[j] = RowsOfItems(OutputOf(j).questions)
            /\ saved[j].qa_count = Len(saved[j].qa_pairs)

MaxSent == 3         \* webhook requests made in one behaviour

\* num_questions as a job or a view holds it.
StoredNums == {NumNone, NumOf(0), NumOf(1), NumOf(3)}

\* str(n) for the numbers in use.
NumText(n) == <<"1", "2", "3", "4", "5">>[n]

\* Python's  num_questions or default
OrElse(num_questions, default) ==
    IF num_questions.set /\ num_questions.n # 0 THEN num_questions.n ELSE default

\* provider.py lines 262 and 315
QuestionNumber(num_questions) ==
    IF num_questions # 0 THEN NumText(num_questions) ELSE "optimal"

\* APIDocumentProcessor.process_document (processor.py lines 54-59) over
\* APIService.process_document (provider.py lines 260-272)
DocumentRequest(num_questions) ==
    [via |-> "process_document", num_questions |-> num_questions, multipart |-> TRUE,
     event |-> "mcq_question",
     question_number |-> QuestionNumber(OrElse(num_questions, 5))]

\* APIDocumentProcessor.process_text (processor.py lines 102-108) over
\* APIService.generate_questions (provider.py lines 312-325)
TextRequest(num_questions) ==
    [via |-> "process_text", num_questions |-> num_questions, multipart |-> FALSE,
     event |-> "mcq_question",
     question_number |-> QuestionNumber(OrElse(num_questions, 0))]

SendDocument ==
    /\ Len(sent) < MaxSent
    /\ \E num_questions \in StoredNums :
          sent' = Append(sent, DocumentRequest(num_questions))
    /\ UNCHANGED <<normVars, reqVars, jobVars, examVars, boardVars, diskVars, config, hooks>>

SendText ==
    /\ Len(sent) < MaxSent
    /\ \E num_questions \in StoredNums :
          sent' = Append(sent, TextRequest(num_questions))
    /\ UNCHANGED <<normVars, reqVars, jobVars, examVars, boardVars, diskVars, config, hooks>>

NextWire == SendDocument \/ SendText

SpecWire == Init /\ [][NextWire]_vars

\* ------------------------------------------------------------------------
\* Properties of the question_number field
\* ------------------------------------------------------------------------
Supplied(r) == r.num_questions.set /\ r.num_questions.n # 0

\* C17: with no number of questions given the request carries
\* question_number 'optimal', for documents as for raw text; it carries a
\* number only when one was supplied, and then that number.
C17_OptimalUnlessSupplied ==
    \A i \in 1..Len(sent) :
        IF Supplied(sent[i])
        THEN sent[i].question_number = NumText(sent[i].num_questions.n)
        ELSE sent[i].question_number = "optimal"

\* It is so for raw text.
C17_TextOptimalUnlessSupplied ==
    \A i \in 1..Len(sent) :
        sent[i].via = "process_text" =>
            IF Supplied(sent[i])
            THEN sent[i].question_number = NumText(sent[i].num_questions.n)
            ELSE sent[i].question_number = "optimal"

\* A document without a number is asked for five questions, and never for
\* 'optimal'.
C17_DocumentAsksFive ==
    \A i \in 1..Len(sent) :
        sent[i].via = "process_document" =>
            /\ sent[i].question_number # "optimal"
            /\ ~Supplied(sent[i]) => sent[i].question_number = "5"

\* ------------------------------------------------------------------------
\* The three upload endpoints with any num_questions
\* ------------------------------------------------------------------------
PostedAny == PostedNums \cup {"-2"}

ApiProcessDocumentAny ==
    /\ Idle
    /\ \E user \in Users, posted \in PostedAny :
          api_process_document(user, UpPdf, posted, TRUE)
    /\ UNCHANGED notJobs

ProcessDocumentAny ==
    /\ Idle
    /\ \E user \in Users, posted \in PostedAny :
          process_document(user, UpPdf, posted, "MULTIPLECHOICE", RunOk)
    /\ UNCHANGED notJobs

ProcessTextAny ==
    /\ Idle
    /\ \E user \in Users, posted \in PostedAny :
          process_text(user, FALSE, posted, RunOk)
    /\ UNCHANGED notJobs

NextNums ==
    \/ ApiProcessDocumentAny
    \/ ProcessDocumentAny
    \/ ProcessTextAny
    \/ ResponseTaken

SpecNums == Init /\ [][NextNums]_vars

\* ------------------------------------------------------------------------
\* Properties of the stored num_questions
\* ------------------------------------------------------------------------
NullOrPositive(num_questions) == ~num_questions.set \/ num_questions.n > 0

\* The jobs the request just served created.
CreatedBy(op) ==
    {j \in JobIds : ~jobs[j].exists /\ jobs'[j].exists /\ resp'.op = op}

\* C19: a job's stored num_questions is null or a positive integer; every
\* upload endpoint rejects or discards zero, negative and non-numeric values.
C19_StoredNumNullOrPositive ==
    \A j \in JobIds : jobs[j].exists => NullOrPositive(jobs[j].num_questions)

\* The brain document endpoint does.
C19_ProcessDocumentStoresPositive ==
    [][\A j \in CreatedBy("process_document") :
          NullOrPositive(jobs'[j].num_questions)]_vars

\* The dashboard endpoint stores any integer, and the text endpoint zero.
C19_OnlyTheseStoreOthers ==
    [][/\ \A j \in CreatedBy("process_text") :
             NullOrPositive(jobs'[j].num_questions) \/ jobs'[j].num_questions = NumOf(0)
       /\ \A j \in JobIds :
             (jobs'[j].exists /\ ~NullOrPositive(jobs'[j].num_questions))
                 => \/ jobs[j].exists
                    \/ resp'.op \in {"api_process_document", "process_text"}]_vars

\* ------------------------------------------------------------------------
\* Properties of the question index
\* ------------------------------------------------------------------------
\* The step moves the index of session x by d.
IndexMove(x) ==
    sessions'[x].current_question_index - sessions[x].current_question_index

\* The step is the second half of a request with action 'previous' for x.
PreviousAsked(x) ==
    \E s \in Slots, user_answer \in {"", "mine"} :
        /\ loaded[s] # NoLoad
        /\ loaded[s].x = x
        /\ exam_save(s, "previous", user_answer)

\* The request that saves in this step holds the row as it is stored now.
SavesFreshRow ==
    \A s \in Slots :
        (loaded[s] # NoLoad /\ loaded'[s] = NoLoad)
            => loaded[s].es = sessions[loaded[s].x]

ByTheRule(x) ==
    /\ IndexMove(x) \in {0 - 1, 0, 1}
    /\ IndexMove(x) < 0 => (sessions[x].allow_navigation /\ PreviousAsked(x))

\* C21: the index of an exam session moves back only on a 'previous' action
\* of a session whose allow_navigation is true, never for a session whose
\* allow_navigation is false, and every request moves it by at most one.
C21_IndexMovesByRule ==
    [][\A x \in SessionIds :
          (sessions[x].exists /\ sessions'[x].exists) => ByTheRule(x)]_vars

\* It is so for a request that saves the row it loaded while no other request
\* has saved in between.
C21_FreshRequestsMoveByRule ==
    [][SavesFreshRow =>
          \A x \in SessionIds :
              (sessions[x].exists /\ sessions'[x].exists) => ByTheRule(x)]_vars

\* ------------------------------------------------------------------------
\* Properties of the closed status
\* ------------------------------------------------------------------------
IsClosed(es) == es.exists /\ es.status \in {"completed", "expired"}

\* C22: an exam session that is 'completed' or 'expired' never becomes
\* 'active' again, also when a navigation request and a submit request for
\* it overlap and each saves the row it loaded.
C22_ClosedNeverActiveAgain ==
    [][\A x \in SessionIds :
          IsClosed(sessions[x]) => sessions'[x].status # "active"]_vars

\* No request that loads the session after it was closed opens it again.
C22_FreshRequestsKeepClosed ==
    [][SavesFreshRow =>
          \A x \in SessionIds :
              IsClosed(sessions[x]) => sessions'[x].status # "active"]_vars

\* ------------------------------------------------------------------------
\* Properties of the completion webhook
\* ------------------------------------------------------------------------
\* C23: send_exam_completion_webhook is called exactly once for an exam
\* session that becomes 'completed' and never for one that becomes
\* 'expired', whatever the requests and however they overlap; a repeated or
\* overlapping submit does not send it again.
C23_WebhookOncePerCompletion ==
    \A x \in SessionIds :
        sessions[x].exists =>
            /\ hooks[x] <= 1
            /\ sessions[x].status = "completed" => hooks[x] = 1
            /\ sessions[x].status = "expired" => hooks[x] = 0

\* Each step that completes a session it finds active sends one, and no
\* other step sends any, as long as requests save the row as it is stored.
C23_FreshRequestsSendOnCompletion ==
    [][SavesFreshRow =>
          \A x \in SessionIds :
              hooks'[x] = hooks[x] +
                  (IF sessions[x].status = "active" /\ sessions'[x].status = "completed"
                   THEN 1 ELSE 0)]_vars

\* The view sends none when it closes a session as expired.
C23_NoWebhookOnExpiry ==
    [][\A x \in SessionIds :
          (sessions[x].status = "active" /\ sessions'[x].status = "expired")
              => hooks'[x] = hooks[x]]_vars

\* ------------------------------------------------------------------------
\* Properties of the stored evaluations
\* ------------------------------------------------------------------------
\* The positions of question q in the order of session x, counted from 0.
PositionsOf(x, q) ==
    {i \in 0..(Len(sessions[x].questions_order) - 1) :
        sessions[x].questions_order[i + 1] = q}

Listed(r) == PositionsOf(r.exam_session, r.question) # {}
AtItsPosition(r) == r.question_index \in PositionsOf(r.exam_session, r.question)

\* The ExamAnswer rows that mirror an evaluation.
Mirrored == {a \in answers : Evaluated(a.exam_session, a.question)}

\* C24: a ShortAnswerEvaluation, and the ExamAnswer mirrored from it, is
\* stored for an exam session only for a question listed in that session's
\* questions_order, with the question's position there as question_index,
\* through evaluate_short_answer and through store_evaluation_result.
C24_EvaluationsAtListedPosition ==
    \A r \in evals \cup Mirrored : Listed(r) /\ AtItsPosition(r)

\* The rows the request just served stored or changed.
JustStored == (evals' \ evals) \cup (answers' \ answers)

\* store_evaluation_result stores the position of a listed question, and 0
\* for one that is not listed.
C24_StoreUsesPosition ==
    [][resp'.op = "store_evaluation_result" =>
          \A r \in JustStored :
              IF Listed(r) THEN AtItsPosition(r) ELSE r.question_index = 0]_vars

\* evaluate_short_answer stores the index the session is at.
C24_EvaluateUsesCurrentIndex ==
    [][resp'.op = "evaluate_short_answer" =>
          \A r \in JustStored :
              r.question_index = sessions[r.exam_session].current_question_index]_vars


============================================================================
